---- MODULE Spec2Model ----
(***************************************************************************)
(* Hello-Pulse ai-services: access filters, the vector database registry,  *)
(* the shared-collection ChromaDB provider, the retriever, the document    *)
(* routes and the agent manager.                                           *)
(*                                                                         *)
(* Python dicts are functions with a domain of strings.  A filter value is *)
(* either a bare scalar, written ("$eq" :> v) here so that it can be told  *)
(* apart from an operator dict ("$in" :> list), or a list of sub-filters   *)
(* under "$or" / "$and".  Python lists are sequences.  uuid4 values are    *)
(* fresh integers drawn from one counter.                                  *)
(***************************************************************************)
EXTENDS Integers, Sequences, FiniteSets, TLC

VARIABLES
    collection,            \* the physical ChromaDB collection "hello_pulse": records in insertion order
    _VECTOR_DB_INSTANCES,  \* services/vector_databases/__init__.py: cache_key -> provider instance
    _agent_cache,          \* AgentManager._agent_cache: cache key -> RAGAgent
    next_uuid,             \* number of uuid4 values handed out so far
    origin,                \* history: document id -> principal whose request added it
    created_agents,        \* history: agent id -> the create_agent request that made it
    last,                  \* the last request at the boundary and what it returned
    settings,              \* core/config.py: COMPANY_CONFIGS and the credentials read from the environment
    _VECTOR_DB_REGISTRY,   \* services/vector_databases/__init__.py: name -> class
    _PROVIDER_REGISTRY,    \* services/llm_providers/__init__.py: name -> class
    _PROVIDER_INSTANCES,   \* services/llm_providers/__init__.py: cache_key -> provider instance
    _SEARCH_PROVIDER_REGISTRY,   \* services/websearch/__init__.py: name -> class
    _SEARCH_PROVIDER_INSTANCES,  \* services/websearch/__init__.py: provider_name -> provider instance
    next_object,           \* number of provider objects constructed so far (object identity)
    handed_out,            \* history: per registry, cache_key -> object returned since its last clear
    requests               \* the requests being served: request id -> its position and its locals

\* the configuration and the registries of LLM and web-search providers
registry_vars == <<settings, _VECTOR_DB_REGISTRY, _PROVIDER_REGISTRY, _PROVIDER_INSTANCES,
                   _SEARCH_PROVIDER_REGISTRY, _SEARCH_PROVIDER_INSTANCES, next_object, handed_out,
                   requests>>

\* the document store, the agent cache and their histories
store_vars == <<collection, _agent_cache, next_uuid, origin, created_agents>>

vars == <<collection, _VECTOR_DB_INSTANCES, _agent_cache, next_uuid, origin, created_agents, last,
          settings, _VECTOR_DB_REGISTRY, _PROVIDER_REGISTRY, _PROVIDER_INSTANCES,
          _SEARCH_PROVIDER_REGISTRY, _SEARCH_PROVIDER_INSTANCES, next_object, handed_out,
          requests>>

(***************************************************************************)
(* Bounds                                                                  *)
(***************************************************************************)
MaxVisLen == 2      \* longest visibility list passed to get_access_filters
MaxDocs == 2        \* documents added in one behaviour of the document specifications
MaxAgents == 1      \* agents created in one behaviour of the agent specification

(***************************************************************************)
(* Principals and values                                                   *)
(***************************************************************************)
Orgs == {"org1", "org2"}
Users == {"alice", "bob", "carol"}
Principals == {<<"org1", "alice">>, <<"org1", "bob">>, <<"org2", "carol">>}

PRIVATE == "private"
SHARED == "shared"
PUBLIC == "public"
Visibility == {PRIVATE, SHARED, PUBLIC}

\* Optional[T]: None is the empty tuple, a present value x is <<x>>.
None == <<>>
Some(x) == <<x>>

\* str values and json.dumps / json.loads of a dict
Str(s) == <<"str", s>>
json_dumps(d) == <<"json", d>>
json_loads(text) == text[2]

(***************************************************************************)
(* dict and list helpers                                                   *)
(***************************************************************************)
EmptyDict == [k \in {} |-> TRUE]

DictSet(d, key, value) ==
    [k \in (DOMAIN d) \cup {key} |-> IF k = key THEN value ELSE d[k]]

DictDel(d, key) == [k \in (DOMAIN d) \ {key} |-> d[k]]

\* d.update(e)
DictUpdate(d, e) ==
    [k \in (DOMAIN d) \cup (DOMAIN e) |-> IF k \in DOMAIN e THEN e[k] ELSE d[k]]

InList(v, list) == \E i \in DOMAIN list : list[i] = v

Range(list) == {list[i] : i \in DOMAIN list}

ListRemove(list, v) ==
    LET first == CHOOSE i \in DOMAIN list : list[i] = v /\ \A j \in 1..(i - 1) : list[j] # v
    IN  [i \in 1..(Len(list) - 1) |-> IF i < first THEN list[i] ELSE list[i + 1]]

Eq(v) == ("$eq" :> v)
In(list) == ("$in" :> list)

(***************************************************************************)
(* The backend's evaluation of a where-filter on a record's metadata:      *)
(* top-level keys are conjoined, "$or" / "$and" hold lists of sub-filters, *)
(* a scalar condition on a list-valued field holds when the list contains  *)
(* the scalar, a condition on a missing field does not hold.               *)
(***************************************************************************)
CondHolds(key, cond, value) ==
    IF "$in" \in DOMAIN cond
    THEN InList(value, cond["$in"])
    ELSE IF key = "associated_agents"
         THEN InList(cond["$eq"], value)
         ELSE value = cond["$eq"]

RECURSIVE Matches(_, _)
Matches(where, metadata) ==
    \A key \in DOMAIN where :
        IF key = "$or"
        THEN \E i \in DOMAIN where[key] : Matches(where[key][i], metadata)
        ELSE IF key = "$and"
             THEN \A i \in DOMAIN where[key] : Matches(where[key][i], metadata)
             ELSE key \in DOMAIN metadata /\ CondHolds(key, where[key], metadata[key])

(***************************************************************************)
(* utils/filtering.py                                                      *)
(***************************************************************************)
\* A builder that starts from an empty filter.
base_filter_unscoped(organization_id) == EmptyDict

\* The base filter of get_access_filters (line 38).
base_filter(organization_id) == ("organization_id" :> Eq(organization_id))

\* A builder that always filters by the requester's user_id.
visibility_filters_own_only(filters, user_id, visibility_arg) ==
    DictSet(filters, "user_id", Eq(user_id))

\* Lines 41-70: the user / visibility part.
visibility_filters(filters, user_id, visibility_arg) ==
    IF visibility_arg = None
    THEN DictSet(filters, "$or",
                 << ("user_id" :> Eq(user_id)),
                    ("visibility" :> In(<<SHARED, PUBLIC>>)) >>)
    ELSE LET visibility == visibility_arg[1] IN
         IF InList(PRIVATE, visibility)
         THEN IF Len(visibility) = 1
              THEN DictSet(filters, "user_id", Eq(user_id))
              ELSE DictSet(filters, "$or",
                           << ("user_id" :> Eq(user_id)),
                              ("visibility" :> In(SelectSeq(visibility, LAMBDA v : v # PRIVATE))) >>)
         ELSE DictSet(filters, "visibility", In(visibility))

\* additional_filters is the **kwargs dict: Python binds the keywords
\* organization_id, user_id and visibility to the named parameters, so they
\* are never keys of additional_filters.
get_access_filters(organization_id, user_id, visibility, additional_filters) ==
    DictUpdate(visibility_filters(base_filter(organization_id), user_id, visibility),
               additional_filters)

(***************************************************************************)
(* core/config.py                                                          *)
(***************************************************************************)
DEFAULT_VECTOR_DB == "chroma"
SHARED_VECTOR_DB == TRUE
CHROMA_COLLECTION_NAME == "hello_pulse"

\* COMPANY_CONFIGS is empty: every organization gets the default configuration.
get_company_config(organization_id) ==
    ("vector_db" :> DEFAULT_VECTOR_DB) @@ ("shared_vector_db" :> SHARED_VECTOR_DB)

(***************************************************************************)
(* The ChromaDB collection: records <<id, text, metadata>> in insertion    *)
(* order.  update replaces the fields it is given.                         *)
(***************************************************************************)
Document(id, text, metadata) == [id |-> id, text |-> text, metadata |-> metadata]

collection_ids(coll) == {coll[i].id : i \in DOMAIN coll}

\* collection.get(ids=...): the stored records among ids, in stored order
collection_get(coll, ids) == SelectSeq(coll, LAMBDA d : InList(d.id, ids))

\* collection.get(where=...)
collection_where(coll, where) == SelectSeq(coll, LAMBDA d : Matches(where, d.metadata))

collection_add(coll, id, text, metadata) == Append(coll, Document(id, text, metadata))

collection_delete(coll, ids) == SelectSeq(coll, LAMBDA d : ~InList(d.id, ids))

\* collection.update(ids=id, documents=text?, metadatas=metadata?)
collection_update(coll, id, text, metadata) ==
    [i \in DOMAIN coll |->
        IF coll[i].id = id
        THEN Document(id,
                      IF text = None THEN coll[i].text ELSE text[1],
                      IF metadata = None THEN coll[i].metadata ELSE metadata[1])
        ELSE coll[i]]

Take(list, n) == SubSeq(list, 1, IF n < Len(list) THEN n ELSE Len(list))

(***************************************************************************)
(* services/vector_databases/chroma.py                                     *)
(***************************************************************************)
\* f"{CHROMA_COLLECTION_NAME}_{organization_id}": the collection of a private database
private_collection_name(organization_id) ==
    IF organization_id = "org1" THEN "hello_pulse_org1" ELSE "hello_pulse_org2"

\* __init__: the instance keeps the organization it was constructed for.
ChromaDBProvider(organization_id, company_config, shared) ==
    [organization_id |-> organization_id,
     shared |-> shared,
     collection_name |-> IF shared
                         THEN CHROMA_COLLECTION_NAME
                         ELSE private_collection_name(organization_id)]

\* add_documents, lines 84-87: the stamp a shared instance puts on a record.
stamp_organization(self, metadata) ==
    IF self.shared
    THEN DictSet(metadata, "organization_id", self.organization_id)
    ELSE metadata

\* add_documents for one document, with the generated id.
add_documents(self, coll, id, text, metadata) ==
    collection_add(coll, id, text, stamp_organization(self, metadata))

\* get_document: None, or Some(document).
get_document(self, coll, document_id) ==
    LET results == collection_get(coll, <<document_id>>) IN
    IF results = <<>>
    THEN None
    ELSE IF self.shared /\ ~( "organization_id" \in DOMAIN results[1].metadata
                               /\ results[1].metadata["organization_id"] = self.organization_id )
         THEN None
         ELSE Some(results[1])

\* update_document: [result, collection]
update_document(self, coll, document_id, text, metadata) ==
    LET results == collection_get(coll, <<document_id>>) IN
    IF results = <<>>
    THEN [result |-> FALSE, collection |-> coll]
    ELSE IF self.shared /\ ~( "organization_id" \in DOMAIN results[1].metadata
                               /\ results[1].metadata["organization_id"] = self.organization_id )
         THEN [result |-> FALSE, collection |-> coll]
         ELSE LET md == IF metadata = None
                        THEN None
                        ELSE IF self.shared /\ "organization_id" \notin DOMAIN metadata[1]
                             THEN Some(DictSet(metadata[1], "organization_id", self.organization_id))
                             ELSE metadata
              IN  [result |-> TRUE, collection |-> collection_update(coll, document_id, text, md)]

\* delete_documents, lines 164-187: [result, collection].  filtered_ids pairs the
\* i-th fetched record with the i-th requested id.
delete_documents(self, coll, document_ids) ==
    IF self.shared
    THEN LET results == collection_get(coll, document_ids)
             kept == {i \in DOMAIN results :
                         /\ "organization_id" \in DOMAIN results[i].metadata
                         /\ results[i].metadata["organization_id"] = self.organization_id}
             filtered_ids == {document_ids[i] : i \in kept}
         IN  IF filtered_ids = {}
             THEN [result |-> TRUE, collection |-> coll]
             ELSE [result |-> TRUE,
                   collection |-> SelectSeq(coll, LAMBDA d : d.id \notin filtered_ids)]
    ELSE [result |-> TRUE, collection |-> collection_delete(coll, document_ids)]

\* list_documents / count_documents / search, lines 330-337: the where clause.
scoped_where(self, filter_dict) ==
    IF self.shared /\ "organization_id" \notin DOMAIN filter_dict
    THEN DictSet(filter_dict, "organization_id", Eq(self.organization_id))
    ELSE filter_dict

list_documents(self, coll, filter_dict, limit, offset) ==
    LET safe_limit == limit + offset
        results == Take(collection_where(coll, scoped_where(self, filter_dict)), safe_limit)
    IN  SubSeq(results, offset + 1, Len(results))

count_documents(self, coll, filter_dict) ==
    Len(collection_where(coll, scoped_where(self, filter_dict)))

\* search: the backend returns at most limit matching records, best score first;
\* the stored order stands for the score order of the query.
\* line 143: score = 1.0 - distance.  The record at position i of the collection
\* has the i-th smallest distance to the query: its score is 0 - i.
score(coll, id) == 0 - (CHOOSE i \in DOMAIN coll : coll[i].id = id)

search(self, coll, filter_dict, limit) ==
    LET found == Take(collection_where(coll, scoped_where(self, filter_dict)), limit) IN
    [i \in DOMAIN found |->
        [id |-> found[i].id, text |-> found[i].text, metadata |-> found[i].metadata,
         score |-> score(coll, found[i].id)]]

(***************************************************************************)
(* services/vector_databases/__init__.py                                   *)
(***************************************************************************)
\* lines 55-59
cache_key_for(organization_id) ==
    LET company_config == get_company_config(organization_id) IN
    IF company_config["shared_vector_db"]
    THEN <<"shared", company_config["vector_db"]>>
    ELSE <<organization_id, company_config["vector_db"]>>

\* lines 61-77: the cache after get_vector_db(organization_id)
instances_after_get_vector_db(instances, organization_id) ==
    LET company_config == get_company_config(organization_id)
        cache_key == cache_key_for(organization_id)
    IN  IF cache_key \in DOMAIN instances
        THEN instances
        ELSE DictSet(instances, cache_key,
                     ChromaDBProvider(organization_id, company_config,
                                      company_config["shared_vector_db"]))

\* the instance get_vector_db(organization_id) returns
get_vector_db(instances, organization_id) ==
    instances_after_get_vector_db(instances, organization_id)[cache_key_for(organization_id)]

(***************************************************************************)
(* core/config.py: the settings object with company configurations         *)
(***************************************************************************)
DEFAULT_LLM_PROVIDER == "openai"
OPENAI_DEFAULT_MODEL == "gpt-3.5-turbo"
OLLAMA_DEFAULT_MODEL == "llama3"
QDRANT_COLLECTION_NAME == "hello_pulse"

\* Settings() with no credentials in the environment and no company configuration
DefaultSettings ==
    [COMPANY_CONFIGS |-> EmptyDict, OPENAI_API_KEY |-> None, SERPAPI_API_KEY |-> None]

\* dict.get(key, default)
DictGet(d, key, default) == IF key \in DOMAIN d THEN d[key] ELSE default

\* Settings.get_company_config, lines 70-81
company_config_of(s, organization_id) ==
    IF organization_id \notin DOMAIN s.COMPANY_CONFIGS
    THEN ("llm_provider" :> DEFAULT_LLM_PROVIDER) @@ ("vector_db" :> DEFAULT_VECTOR_DB)
         @@ ("shared_vector_db" :> SHARED_VECTOR_DB)
         @@ ("openai_model" :> OPENAI_DEFAULT_MODEL) @@ ("ollama_model" :> OLLAMA_DEFAULT_MODEL)
    ELSE s.COMPANY_CONFIGS[organization_id]

\* Settings.update_company_config, lines 83-87
update_company_config(s, organization_id, config) ==
    LET current == IF organization_id \in DOMAIN s.COMPANY_CONFIGS
                   THEN s.COMPANY_CONFIGS[organization_id]
                   ELSE EmptyDict
    IN  [s EXCEPT !.COMPANY_CONFIGS = DictSet(@, organization_id, DictUpdate(current, config))]

\* Settings.get_llm_provider_for_company, lines 89-92
get_llm_provider_for_company(s, organization_id) ==
    DictGet(company_config_of(s, organization_id), "llm_provider", DEFAULT_LLM_PROVIDER)

(***************************************************************************)
(* Provider classes.  A constructor call either raises or yields the new   *)
(* object; object is the identity of the object it allocates.              *)
(***************************************************************************)
Raised(error) == [raised |-> TRUE, error |-> error, instance |-> None]
Returned(instance) == [raised |-> FALSE, error |-> "", instance |-> Some(instance)]

\* services/llm_providers/openai.py __init__: the api key comes from the
\* company configuration, else from the settings; without one it raises
OpenAIProvider(object, organization_id, company_config, s) ==
    LET api_key == IF "openai_api_key" \in DOMAIN company_config
                   THEN Some(company_config["openai_api_key"])
                   ELSE s.OPENAI_API_KEY
    IN  IF api_key = None
        THEN Raised("ValueError: OpenAI API key not configured")
        ELSE Returned([object |-> object, class |-> "OpenAIProvider",
                       organization_id |-> organization_id,
                       model |-> DictGet(company_config, "openai_model", OPENAI_DEFAULT_MODEL)])

\* services/llm_providers/ollama.py __init__
OllamaProvider(object, organization_id, company_config, s) ==
    Returned([object |-> object, class |-> "OllamaProvider",
              organization_id |-> organization_id,
              model |-> DictGet(company_config, "ollama_model", OLLAMA_DEFAULT_MODEL)])

\* provider_class(organization_id, company_config)
construct_llm_provider(provider_class, object, organization_id, company_config, s) ==
    IF provider_class = "OpenAIProvider"
    THEN OpenAIProvider(object, organization_id, company_config, s)
    ELSE OllamaProvider(object, organization_id, company_config, s)

\* services/websearch/serpapi.py __init__
SerpAPIProvider(object, s) ==
    IF s.SERPAPI_API_KEY = None
    THEN Raised("ValueError: SerpAPI API key not configured")
    ELSE Returned([object |-> object, class |-> "SerpAPIProvider"])

\* services/vector_databases/qdrant.py __init__ (the database is reachable)
QdrantProvider(organization_id, company_config, shared) ==
    [organization_id |-> organization_id,
     shared |-> shared,
     collection_name |-> IF shared
                         THEN QDRANT_COLLECTION_NAME
                         ELSE private_collection_name(organization_id)]

\* vector_db_class(organization_id, company_config, shared_vector_db); the
\* databases are reachable, so these constructors do not raise
construct_vector_db(vector_db_class, object, organization_id, company_config, shared) ==
    Returned((IF vector_db_class = "ChromaDBProvider"
              THEN ChromaDBProvider(organization_id, company_config, shared)
              ELSE QdrantProvider(organization_id, company_config, shared))
             @@ ("object" :> object) @@ ("class" :> vector_db_class))

(***************************************************************************)
(* The three registries.  A resolve yields what the call raised or         *)
(* returned together with the instance cache it leaves.                    *)
(***************************************************************************)
\* A lookup that never finds an instance.
cached_never(instances, cache_key) == FALSE

\* "if cache_key in _PROVIDER_INSTANCES" (llm 55, vector 62, websearch 51)
cached(instances, cache_key) == cache_key \in DOMAIN instances

\* A caching step that puts an entry under the key before the constructor has returned.
after_construction_always(instances, cache_key, built) ==
    DictSet(instances, cache_key,
            IF built.raised THEN [object |-> -1, class |-> "unconstructed"] ELSE built.instance[1])

\* the constructor call followed by the caching statement (llm 70-73,
\* vector 74-77, websearch 62-65): an exception leaves the cache as it was
after_construction(instances, cache_key, built) ==
    IF built.raised THEN instances ELSE DictSet(instances, cache_key, built.instance[1])

\* A clear that removes nothing.
cleared_nothing(instances) == instances

\* _PROVIDER_INSTANCES.clear() (llm 88, vector 93, websearch 73)
cleared(instances) == EmptyDict

Resolved(outcome, instances) ==
    [raised |-> outcome.raised, error |-> outcome.error, instance |-> outcome.instance,
     instances |-> instances]

\* get_llm_provider, lines 35-84
llm_cache_key(s, organization_id) ==
    <<organization_id, ":", get_llm_provider_for_company(s, organization_id)>>

\* lines 58-64: an unregistered name is replaced by the default name
llm_provider_class(s, registry, organization_id) ==
    LET provider_name == get_llm_provider_for_company(s, organization_id)
    IN  IF provider_name \notin DOMAIN registry
        THEN registry[DEFAULT_LLM_PROVIDER]
        ELSE registry[provider_name]

get_llm_provider(s, registry, instances, object, organization_id) ==
    LET cache_key == llm_cache_key(s, organization_id)
        built == construct_llm_provider(llm_provider_class(s, registry, organization_id), object, organization_id,
                                        company_config_of(s, organization_id), s)
    IN  IF cached(instances, cache_key)
        THEN Resolved(Returned(instances[cache_key]), instances)
        ELSE Resolved(built, after_construction(instances, cache_key, built))

\* get_vector_db, lines 35-89, for any company configuration and registry
vector_db_cache_key(s, organization_id) ==
    LET company_config == company_config_of(s, organization_id)
        vector_db_name == DictGet(company_config, "vector_db", DEFAULT_VECTOR_DB)
    IN  IF DictGet(company_config, "shared_vector_db", SHARED_VECTOR_DB)
        THEN <<"shared", vector_db_name>>
        ELSE <<organization_id, vector_db_name>>

get_vector_db_configured(s, registry, instances, object, organization_id) ==
    LET company_config == company_config_of(s, organization_id)
        vector_db_name == DictGet(company_config, "vector_db", DEFAULT_VECTOR_DB)
        shared_vector_db == DictGet(company_config, "shared_vector_db", SHARED_VECTOR_DB)
        cache_key == vector_db_cache_key(s, organization_id)
        vector_db_class == IF vector_db_name \notin DOMAIN registry
                           THEN registry[DEFAULT_VECTOR_DB]
                           ELSE registry[vector_db_name]
        built == construct_vector_db(vector_db_class, object, organization_id,
                                     company_config, shared_vector_db)
    IN  IF cached(instances, cache_key)
        THEN Resolved(Returned(instances[cache_key]), instances)
        ELSE Resolved(built, after_construction(instances, cache_key, built))

\* get_search_provider, lines 33-69; provider_name is Optional[str]
search_cache_key(provider_name) ==
    IF provider_name = None THEN "serpapi" ELSE provider_name[1]

get_search_provider(s, registry, instances, object, provider_name) ==
    LET name == search_cache_key(provider_name)
        built == SerpAPIProvider(object, s)
    IN  IF cached(instances, name)
        THEN Resolved(Returned(instances[name]), instances)
        ELSE IF name \notin DOMAIN registry
             THEN Resolved(Raised("ValueError: Web search provider not found"), instances)
             ELSE Resolved(built, after_construction(instances, name, built))

\* the module-level dictionaries as the three packages define them
DefaultRegistries ==
    /\ settings = DefaultSettings
    /\ _VECTOR_DB_REGISTRY = ("chroma" :> "ChromaDBProvider") @@ ("qdrant" :> "QdrantProvider")
    /\ _PROVIDER_REGISTRY = ("openai" :> "OpenAIProvider") @@ ("ollama" :> "OllamaProvider")
    /\ _PROVIDER_INSTANCES = EmptyDict
    /\ _SEARCH_PROVIDER_REGISTRY = ("serpapi" :> "SerpAPIProvider")
    /\ _SEARCH_PROVIDER_INSTANCES = EmptyDict
    /\ next_object = 0
    /\ handed_out = [llm |-> EmptyDict, vector |-> EmptyDict, search |-> EmptyDict]
    /\ requests = EmptyDict

(***************************************************************************)
(* utils/filtering.py: sanitize_metadata_for_storage (the timestamp field  *)
(* is left out of the model)                                               *)
(***************************************************************************)
\* A sanitizer that stores whatever visibility the request carries.
sanitize_metadata_any_visibility(metadata, organization_id, user_id) ==
    LET sanitized == DictSet(DictSet(metadata, "organization_id", organization_id),
                             "user_id", user_id)
    IN  IF "visibility" \notin DOMAIN sanitized
        THEN DictSet(sanitized, "visibility", PRIVATE)
        ELSE sanitized

sanitize_metadata_for_storage(metadata, organization_id, user_id) ==
    LET sanitized == DictSet(DictSet(metadata, "organization_id", organization_id),
                             "user_id", user_id)
    IN  IF "visibility" \notin DOMAIN sanitized
        THEN DictSet(sanitized, "visibility", PRIVATE)
        ELSE IF sanitized["visibility"] \notin Visibility
             THEN DictSet(sanitized, "visibility", PRIVATE)
             ELSE sanitized

(***************************************************************************)
(* services/rag/retriever.py                                               *)
(***************************************************************************)
\* A merge that lets every key of the caller's filter through.
merge_filters_unguarded(access_filters, filter_dict) ==
    IF filter_dict = None \/ filter_dict = Some(EmptyDict)
    THEN access_filters
    ELSE DictUpdate(access_filters, filter_dict[1])

\* lines 55-61: the caller's filter merged into the access filter
merge_filters(access_filters, filter_dict) ==
    IF filter_dict = None \/ filter_dict = Some(EmptyDict)
    THEN access_filters
    ELSE DictUpdate(access_filters,
                    [k \in (DOMAIN filter_dict[1]) \ {"organization_id", "user_id", "$or"}
                        |-> filter_dict[1][k]])

\* retrieve_relevant_documents, given the instance get_vector_db returned
\* lines 49-61: the filter handed to vector_db.search
retriever_filters(organization_id, user_id, filter_dict) ==
    merge_filters(get_access_filters(organization_id, user_id, None, EmptyDict), filter_dict)

\* line 68: the number of candidates asked of vector_db.search
search_limit(limit, rerank) == IF rerank THEN limit * 2 ELSE limit

\* A retrieval that hands back every candidate the search returned.
retrieve_relevant_documents_uncut(vector_db, coll, organization_id, user_id, filter_dict, limit, rerank) ==
    search(vector_db, coll, retriever_filters(organization_id, user_id, filter_dict),
           search_limit(limit, rerank))

retrieve_relevant_documents(vector_db, coll, organization_id, user_id, filter_dict, limit, rerank) ==
    LET access_filters == retriever_filters(organization_id, user_id, filter_dict)
        documents == search(vector_db, coll, access_filters, search_limit(limit, rerank))
    IN  IF rerank /\ Len(documents) > limit
        THEN SubSeq(documents, 1, limit)
        ELSE documents

(***************************************************************************)
(* services/agents/personalization.py                                      *)
(***************************************************************************)
RAGAgent(agent_id, agent_name, agent_description, agent_instructions, organization_id, user_id, metadata) ==
    [agent_id |-> agent_id, agent_name |-> agent_name,
     agent_description |-> agent_description, agent_instructions |-> agent_instructions,
     organization_id |-> organization_id, user_id |-> user_id, metadata |-> metadata]

\* retrieve_relevant_docs, lines 92-113: the filter handed to the retriever
agent_filters(self) ==
    LET filters == get_access_filters(self.organization_id, self.user_id, None, EmptyDict)
        doc_filter == IF "document_filter" \in DOMAIN self.metadata
                      THEN self.metadata["document_filter"]
                      ELSE EmptyDict
        agent_filter == DictUpdate(("associated_agents" :> Eq(self.agent_id)),
                                   [k \in (DOMAIN doc_filter) \ ((DOMAIN filters) \cup {"associated_agents"})
                                       |-> doc_filter[k]])
    IN  DictSet(filters, "$and",
                Append(IF "$and" \in DOMAIN filters THEN filters["$and"] ELSE <<>>, agent_filter))

DEFAULT_RETRIEVE_LIMIT == 5

\* retrieve_relevant_docs with the default limit
retrieve_relevant_docs(self, vector_db, coll) ==
    retrieve_relevant_documents(vector_db, coll, self.organization_id, self.user_id,
                                Some(agent_filters(self)), DEFAULT_RETRIEVE_LIMIT, TRUE)

(***************************************************************************)
(* services/agents/manager.py                                              *)
(***************************************************************************)
\* A list of reserved keys that leaves out the identity fields.
RESERVED_KEYS_display_only == {"name", "description", "instructions", "updated_at", "type"}

RESERVED_KEYS == {"agent_id", "name", "description", "instructions",
                  "created_at", "updated_at", "created_by", "organization_id", "type"}

ASSOCIATED_DOCS_LIMIT == 1000

\* An ownership test that accepts every document.
has_organization_unchecked(metadata, organization_id) == TRUE

\* lines 104-110, 661-667: metadata.get("organization_id") == organization_id
has_organization(metadata, organization_id) ==
    "organization_id" \in DOMAIN metadata /\ metadata["organization_id"] = organization_id

\* create_agent lines 101-143, update_agent lines 658-700: one document id
associate_document(vector_db, coll, organization_id, agent_id, doc_id) ==
    LET doc == get_document(vector_db, coll, doc_id) IN
    IF doc = None
    THEN coll
    ELSE IF ~has_organization(doc[1].metadata, organization_id)
         THEN coll
         ELSE LET md == doc[1].metadata
                  updated_metadata ==
                      IF "associated_agents" \notin DOMAIN md
                      THEN DictSet(md, "associated_agents", <<agent_id>>)
                      ELSE IF ~InList(agent_id, md["associated_agents"])
                           THEN DictSet(md, "associated_agents", Append(md["associated_agents"], agent_id))
                           ELSE md
              IN  update_document(vector_db, coll, doc_id, None, Some(updated_metadata)).collection

RECURSIVE associate_documents(_, _, _, _, _)
associate_documents(vector_db, coll, organization_id, agent_id, document_ids) ==
    IF document_ids = <<>>
    THEN coll
    ELSE associate_documents(vector_db,
                             associate_document(vector_db, coll, organization_id, agent_id, Head(document_ids)),
                             organization_id, agent_id, Tail(document_ids))

\* A removal that clears the whole associated_agents list of the document.
dissociate_document_clearing(vector_db, coll, agent_id, doc) ==
    LET metadata == doc.metadata IN
    IF "associated_agents" \in DOMAIN metadata /\ InList(agent_id, metadata["associated_agents"])
    THEN update_document(vector_db, coll, doc.id, None,
                         Some(DictDel(metadata, "associated_agents"))).collection
    ELSE coll

\* delete_agent lines 465-481, update_agent lines 639-655: one listed document
dissociate_document(vector_db, coll, agent_id, doc) ==
    LET metadata == doc.metadata IN
    IF "associated_agents" \in DOMAIN metadata /\ InList(agent_id, metadata["associated_agents"])
    THEN LET remaining == ListRemove(metadata["associated_agents"], agent_id)
             new_metadata == IF remaining = <<>>
                             THEN DictDel(metadata, "associated_agents")
                             ELSE DictSet(metadata, "associated_agents", remaining)
         IN  update_document(vector_db, coll, doc.id, None, Some(new_metadata)).collection
    ELSE coll

RECURSIVE dissociate_documents(_, _, _, _)
dissociate_documents(vector_db, coll, agent_id, docs) ==
    IF docs = <<>>
    THEN coll
    ELSE dissociate_documents(vector_db,
                              dissociate_document(vector_db, coll, agent_id, Head(docs)),
                              agent_id, Tail(docs))

\* the documents the manager finds associated with the agent
associated_docs(vector_db, coll, organization_id, agent_id) ==
    list_documents(vector_db, coll,
                   ("associated_agents" :> Eq(agent_id)) @@ ("organization_id" :> Eq(organization_id)),
                   ASSOCIATED_DOCS_LIMIT, 0)

\* the agent metadata documents found for (agent_id, organization_id)
agent_docs(vector_db, coll, organization_id, agent_id) ==
    list_documents(vector_db, coll,
                   ("agent_id" :> Eq(agent_id)) @@ ("organization_id" :> Eq(organization_id))
                       @@ ("document_type" :> Eq("agent_metadata")),
                   1, 0)

\* create_agent: the collection afterwards; agent_id and agent_doc_id are the two uuids
create_agent(vector_db, coll, agent_id, agent_doc_id, organization_id, user_id, name, instructions, description, document_ids, document_filter, metadata) ==
    LET base == ("agent_id" :> agent_id) @@ ("name" :> name) @@ ("description" :> description)
                @@ ("instructions" :> instructions) @@ ("created_by" :> user_id)
                @@ ("created_at" :> "t0") @@ ("organization_id" :> organization_id)
                @@ ("type" :> "rag_agent")
        agent_metadata == IF metadata = None
                          THEN base
                          ELSE DictUpdate(base, [k \in (DOMAIN metadata[1]) \ (DOMAIN base) |-> metadata[1][k]])
        coll1 == add_documents(vector_db, coll, agent_doc_id, json_dumps(agent_metadata),
                               ("agent_id" :> agent_id) @@ ("organization_id" :> organization_id)
                                   @@ ("user_id" :> user_id) @@ ("visibility" :> PRIVATE)
                                   @@ ("document_type" :> "agent_metadata"))
        coll2 == IF document_ids = None
                 THEN coll1
                 ELSE associate_documents(vector_db, coll1, organization_id, agent_id, document_ids[1])
    IN  IF document_filter = None \/ document_filter = Some(EmptyDict)
        THEN coll2
        ELSE update_document(vector_db, coll2, agent_doc_id,
                             Some(json_dumps(DictSet(agent_metadata, "document_filter", document_filter[1]))),
                             None).collection

\* create_agent lines 165-174: document_count of the response
create_agent_document_count(document_ids) ==
    IF document_ids = None THEN 0 ELSE Len(document_ids[1])

\* A count of every document of the organization.
count_organization_documents(vector_db, coll, organization_id, agent_id) ==
    count_documents(vector_db, coll, ("organization_id" :> Eq(organization_id)))

\* get_agent lines 238-244, list_agents lines 329-333: the number of documents
\* associated with the agent
count_associated(vector_db, coll, organization_id, agent_id) ==
    count_documents(vector_db, coll,
                    ("associated_agents" :> Eq(agent_id))
                        @@ ("organization_id" :> Eq(organization_id)))

\* get_agent: None or Some(response)
get_agent(vector_db, coll, agent_id, organization_id, user_id) ==
    LET docs == agent_docs(vector_db, coll, organization_id, agent_id) IN
    IF docs = <<>>
    THEN None
    ELSE LET agent_metadata == json_loads(docs[1].text)
             document_count == count_associated(vector_db, coll, organization_id, agent_id)
         IN  Some([id |-> agent_id,
                   name |-> agent_metadata["name"],
                   description |-> agent_metadata["description"],
                   instructions |-> agent_metadata["instructions"],
                   created_at |-> agent_metadata["created_at"],
                   updated_at |-> IF "updated_at" \in DOMAIN agent_metadata
                                  THEN Some(agent_metadata["updated_at"]) ELSE None,
                   metadata |-> [k \in (DOMAIN agent_metadata) \ RESERVED_KEYS |-> agent_metadata[k]],
                   document_count |-> document_count])

\* list_agents, lines 274-370: [agents, total_count]
LIST_AGENTS_LIMIT == 100

list_agents(vector_db, coll, organization_id, user_id, filter_dict, limit, offset) ==
    LET scope == ("organization_id" :> Eq(organization_id))
                 @@ ("document_type" :> Eq("agent_metadata"))
        list_filter == IF filter_dict = None \/ filter_dict = Some(EmptyDict)
                       THEN scope
                       ELSE DictUpdate(scope,
                                       [k \in (DOMAIN filter_dict[1]) \ {"organization_id", "document_type"}
                                           |-> filter_dict[1][k]])
        total_count == count_documents(vector_db, coll, list_filter)
        docs == list_documents(vector_db, coll, list_filter, limit, offset)
        agent_data(doc) ==
            LET agent_metadata == json_loads(doc.text)
                agent_id == agent_metadata["agent_id"]
            IN  [id |-> agent_id,
                 name |-> agent_metadata["name"],
                 description |-> agent_metadata["description"],
                 instructions |-> agent_metadata["instructions"],
                 created_at |-> agent_metadata["created_at"],
                 updated_at |-> IF "updated_at" \in DOMAIN agent_metadata
                                THEN Some(agent_metadata["updated_at"]) ELSE None,
                 metadata |-> [k \in (DOMAIN agent_metadata) \ RESERVED_KEYS |-> agent_metadata[k]],
                 document_count |-> count_associated(vector_db, coll, organization_id, agent_id)]
    IN  [agents |-> [i \in DOMAIN docs |-> agent_data(docs[i])], total_count |-> total_count]

\* the cache key f"{organization_id}:{agent_id}" and the bare str agent_id,
\* as the tuples of their parts
instance_cache_key(organization_id, agent_id) == <<organization_id, ":", agent_id>>
bare_key(agent_id) == <<agent_id>>

\* delete_agent lines 483-485, update_agent lines 702-704: the key removed from the cache
evicted_key(organization_id, agent_id) == bare_key(agent_id)

evict(cache, organization_id, agent_id) ==
    IF evicted_key(organization_id, agent_id) \in DOMAIN cache
    THEN DictDel(cache, evicted_key(organization_id, agent_id))
    ELSE cache

\* An authorization test that lets every caller through.
is_authorized_anyone(agent_metadata, user_id) == TRUE

\* lines 421-437 / 571-587: the caller may modify the agent
is_authorized(agent_metadata, user_id) ==
    LET is_admin == FALSE IN
    agent_metadata["created_by"] = user_id \/ is_admin

\* delete_agent: [result, collection, cache]
delete_agent(vector_db, coll, cache, agent_id, organization_id, user_id) ==
    LET docs == agent_docs(vector_db, coll, organization_id, agent_id) IN
    IF docs = <<>>
    THEN [result |-> FALSE, collection |-> coll, cache |-> cache]
    ELSE IF ~is_authorized(json_loads(docs[1].text), user_id)
    THEN [result |-> FALSE, collection |-> coll, cache |-> cache]
    ELSE LET deleted == delete_documents(vector_db, coll, <<docs[1].id>>) IN
         IF ~deleted.result
         THEN [result |-> FALSE, collection |-> deleted.collection, cache |-> cache]
         ELSE LET listed == associated_docs(vector_db, deleted.collection, organization_id, agent_id)
              IN  [result |-> TRUE,
                   collection |-> dissociate_documents(vector_db, deleted.collection, agent_id, listed),
                   cache |-> evict(cache, organization_id, agent_id)]

\* update_agent: [result, collection, cache]; result is None or Some(get_agent response)
update_agent(vector_db, coll, cache, agent_id, organization_id, user_id, name, instructions, description, document_ids, document_filter, metadata) ==
    LET docs == agent_docs(vector_db, coll, organization_id, agent_id) IN
    IF docs = <<>>
    THEN [result |-> None, collection |-> coll, cache |-> cache]
    ELSE IF ~is_authorized(json_loads(docs[1].text), user_id)
    THEN [result |-> None, collection |-> coll, cache |-> cache]
    ELSE LET am0 == json_loads(docs[1].text)
             am1 == IF name = None THEN am0 ELSE DictSet(am0, "name", name[1])
             am2 == IF instructions = None THEN am1 ELSE DictSet(am1, "instructions", instructions[1])
             am3 == IF description = None THEN am2 ELSE DictSet(am2, "description", description[1])
             am4 == IF document_filter = None THEN am3 ELSE DictSet(am3, "document_filter", document_filter[1])
             custom == IF metadata = None
                       THEN EmptyDict
                       ELSE [k \in (DOMAIN metadata[1]) \ RESERVED_KEYS |-> metadata[1][k]]
             am5 == DictUpdate(am4, custom)
             updated == name # None \/ instructions # None \/ description # None
                        \/ document_filter # None \/ DOMAIN custom # {}
             coll1 == IF updated
                      THEN update_document(vector_db, coll, docs[1].id,
                                           Some(json_dumps(DictSet(am5, "updated_at", "t1"))),
                                           None).collection
                      ELSE coll
             coll2 == IF document_ids = None
                      THEN coll1
                      ELSE LET current_docs == associated_docs(vector_db, coll1, organization_id, agent_id)
                               removed == dissociate_documents(vector_db, coll1, agent_id, current_docs)
                           IN  associate_documents(vector_db, removed, organization_id, agent_id,
                                                   document_ids[1])
         IN  [result |-> get_agent(vector_db, coll2, agent_id, organization_id, user_id),
              collection |-> coll2,
              cache |-> evict(cache, organization_id, agent_id)]

\* _get_agent_instance: [agent, cache]; agent is None or Some(RAGAgent)
get_agent_instance(vector_db, coll, cache, agent_id, organization_id, user_id) ==
    LET cache_key == instance_cache_key(organization_id, agent_id) IN
    IF cache_key \in DOMAIN cache
    THEN [agent |-> Some(cache[cache_key]), cache |-> cache]
    ELSE LET agent_info == get_agent(vector_db, coll, agent_id, organization_id, user_id) IN
         IF agent_info = None
         THEN [agent |-> None, cache |-> cache]
         ELSE LET agent == RAGAgent(agent_id, agent_info[1].name, agent_info[1].description,
                                    agent_info[1].instructions, organization_id, user_id,
                                    agent_info[1].metadata)
              IN  [agent |-> Some(agent), cache |-> DictSet(cache, cache_key, agent)]

(***************************************************************************)
(* Inputs                                                                  *)
(***************************************************************************)
VisibilityLists ==
    {None} \cup {Some(list) : list \in UNION {[1..n -> Visibility] : n \in 0..MaxVisLen}}

\* Keyword arguments a caller can pass as extra filters.
AdditionalFilters ==
    { EmptyDict,
      ("document_type" :> Eq("document")),
      ("$or" :> << ("visibility" :> In(<<PRIVATE, SHARED, PUBLIC>>)) >>),
      ("$or" :> << ("organization_id" :> Eq("org1")), ("organization_id" :> Eq("org2")) >>),
      ("$and" :> << ("organization_id" :> Eq("org2")) >>),
      ("associated_agents" :> Eq(1)) }

\* Every metadata a stored knowledge document can carry.
MetadataSpace ==
    { ("organization_id" :> o) @@ ("user_id" :> u) @@ ("visibility" :> v) @@ ("document_type" :> "document")
        : o \in Orgs, u \in Users, v \in Visibility }

(***************************************************************************)
(* Initial state                                                           *)
(***************************************************************************)
Init ==
    /\ collection = <<>>
    /\ _VECTOR_DB_INSTANCES = EmptyDict
    /\ _agent_cache = EmptyDict
    /\ next_uuid = 0
    /\ origin = EmptyDict
    /\ created_agents = EmptyDict
    /\ last = ("op" :> "init")
    /\ DefaultRegistries

(***************************************************************************)
(* A call of get_access_filters                                            *)
(***************************************************************************)
GetAccessFilters ==
    \E p \in Principals, visibility \in VisibilityLists, extra \in AdditionalFilters :
        /\ last' = ("op" :> "get_access_filters") @@ ("organization_id" :> p[1])
                   @@ ("user_id" :> p[2]) @@ ("visibility" :> visibility)
                   @@ ("additional_filters" :> extra)
                   @@ ("result" :> get_access_filters(p[1], p[2], visibility, extra))
        /\ UNCHANGED <<collection, _VECTOR_DB_INSTANCES, _agent_cache, next_uuid, origin, created_agents>>
        /\ UNCHANGED registry_vars

Texts == {Str("t1")}

\* the metadata part of a document in an add request (schemas/requests.py DocumentMetadata)
RequestMetadata == {("visibility" :> v) : v \in {PRIVATE, SHARED}}

DocumentIds == 1..MaxDocs

Call(op, p) == ("op" :> op) @@ ("organization_id" :> p[1]) @@ ("user_id" :> p[2])

(***************************************************************************)
(* api/routes/rag.py: POST /rag/documents with one document                *)
(***************************************************************************)
AddDocuments ==
    \E p \in Principals, text \in Texts, request_metadata \in RequestMetadata :
        LET organization_id == p[1]
            user_id == p[2]
            vector_db == get_vector_db(_VECTOR_DB_INSTANCES, organization_id)
            metadata == sanitize_metadata_for_storage(request_metadata, organization_id, user_id)
            id == next_uuid + 1
            coll == add_documents(vector_db, collection, id, text, metadata)
        IN  /\ next_uuid < MaxDocs
            /\ _VECTOR_DB_INSTANCES' = instances_after_get_vector_db(_VECTOR_DB_INSTANCES, organization_id)
            /\ next_uuid' = id
            /\ collection' = coll
            /\ origin' = DictSet(origin, id, p)
            /\ last' = Call("add_documents", p) @@ ("document_id" :> id)
                       @@ ("text" :> text) @@ ("metadata" :> metadata)
                       @@ ("result" :> get_document(vector_db, coll, id))
            /\ UNCHANGED <<_agent_cache, created_agents>>
            /\ UNCHANGED registry_vars

(***************************************************************************)
(* Calls on the instance get_vector_db(organization_id) returns, as the    *)
(* retriever, the routes and the agent manager make them                   *)
(***************************************************************************)
VdbGetDocument ==
    \E organization_id \in Orgs, document_id \in DocumentIds :
        LET vector_db == get_vector_db(_VECTOR_DB_INSTANCES, organization_id) IN
        /\ _VECTOR_DB_INSTANCES' = instances_after_get_vector_db(_VECTOR_DB_INSTANCES, organization_id)
        /\ last' = ("op" :> "vdb.get_document") @@ ("organization_id" :> organization_id)
                   @@ ("document_id" :> document_id)
                   @@ ("result" :> get_document(vector_db, collection, document_id))
        /\ UNCHANGED <<collection, _agent_cache, next_uuid, origin, created_agents>>
        /\ UNCHANGED registry_vars

\* update_document(document_id, metadata={"user_id": ..., "visibility": "shared"})
VdbUpdateDocument ==
    \E p \in Principals, document_id \in DocumentIds :
        LET metadata == Some(("user_id" :> p[2]) @@ ("visibility" :> SHARED))
            vector_db == get_vector_db(_VECTOR_DB_INSTANCES, p[1])
            r == update_document(vector_db, collection, document_id, None, metadata)
        IN  /\ _VECTOR_DB_INSTANCES' = instances_after_get_vector_db(_VECTOR_DB_INSTANCES, p[1])
            /\ collection' = r.collection
            /\ last' = ("op" :> "vdb.update_document") @@ ("organization_id" :> p[1])
                       @@ ("document_id" :> document_id) @@ ("result" :> r.result)
            /\ UNCHANGED <<_agent_cache, next_uuid, origin, created_agents>>
            /\ UNCHANGED registry_vars

VdbDeleteDocuments ==
    \E organization_id \in Orgs, document_id \in DocumentIds :
        LET vector_db == get_vector_db(_VECTOR_DB_INSTANCES, organization_id)
            r == delete_documents(vector_db, collection, <<document_id>>)
        IN  /\ _VECTOR_DB_INSTANCES' = instances_after_get_vector_db(_VECTOR_DB_INSTANCES, organization_id)
            /\ collection' = r.collection
            /\ last' = ("op" :> "vdb.delete_documents") @@ ("organization_id" :> organization_id)
                       @@ ("document_id" :> document_id)
                       @@ ("existed" :> (document_id \in collection_ids(collection)))
                       @@ ("result" :> r.result)
            /\ UNCHANGED <<_agent_cache, next_uuid, origin, created_agents>>
            /\ UNCHANGED registry_vars

NextVdb == AddDocuments \/ VdbGetDocument \/ VdbUpdateDocument \/ VdbDeleteDocuments

SpecVdb == Init /\ [][NextVdb]_vars

(***************************************************************************)
(* api/routes/rag.py: GET /rag/documents/{document_id}, GET /rag/documents *)
(***************************************************************************)
\* get_document, lines 441-473: None stands for the 404 response
route_get_document(vector_db, coll, organization_id, user_id, document_id) ==
    LET doc == get_document(vector_db, coll, document_id) IN
    IF doc = None
    THEN None
    ELSE IF ~( "organization_id" \in DOMAIN doc[1].metadata
               /\ doc[1].metadata["organization_id"] = organization_id )
         THEN None
         ELSE doc

\* list_documents, lines 624-650: filter is the parsed JSON filter, if any
route_list_documents(vector_db, coll, organization_id, user_id, filter, limit, offset) ==
    LET filter_dict == DictSet(IF filter = None THEN EmptyDict ELSE filter[1],
                               "organization_id", Eq(organization_id))
    IN  list_documents(vector_db, coll, filter_dict, limit, offset)

\* filters a request can carry
RequestFilters ==
    { None,
      Some(("visibility" :> Eq(PRIVATE))),
      Some(("$or" :> << ("visibility" :> Eq(PRIVATE)) >>)),
      Some(("organization_id" :> Eq("org2")) @@ ("user_id" :> Eq("bob"))) }

Limits == {1, 2}
Offsets == {0, 1}

RouteGetDocument ==
    \E p \in Principals, document_id \in DocumentIds :
        LET vector_db == get_vector_db(_VECTOR_DB_INSTANCES, p[1]) IN
        /\ _VECTOR_DB_INSTANCES' = instances_after_get_vector_db(_VECTOR_DB_INSTANCES, p[1])
        /\ last' = Call("route.get_document", p) @@ ("document_id" :> document_id)
                   @@ ("result" :> route_get_document(vector_db, collection, p[1], p[2], document_id))
        /\ UNCHANGED <<collection, _agent_cache, next_uuid, origin, created_agents>>
        /\ UNCHANGED registry_vars

RouteListDocuments ==
    \E p \in Principals, filter \in RequestFilters, limit \in Limits, offset \in Offsets :
        LET vector_db == get_vector_db(_VECTOR_DB_INSTANCES, p[1]) IN
        /\ _VECTOR_DB_INSTANCES' = instances_after_get_vector_db(_VECTOR_DB_INSTANCES, p[1])
        /\ last' = Call("route.list_documents", p)
                   @@ ("result" :> route_list_documents(vector_db, collection, p[1], p[2],
                                                        filter, limit, offset))
        /\ UNCHANGED <<collection, _agent_cache, next_uuid, origin, created_agents>>
        /\ UNCHANGED registry_vars

Retrieve ==
    \E p \in Principals, filter \in RequestFilters, limit \in Limits, rerank \in BOOLEAN :
        LET vector_db == get_vector_db(_VECTOR_DB_INSTANCES, p[1]) IN
        /\ _VECTOR_DB_INSTANCES' = instances_after_get_vector_db(_VECTOR_DB_INSTANCES, p[1])
        /\ last' = Call("retrieve_relevant_documents", p)
                   @@ ("filter_dict" :> filter)
                   @@ ("access_filters" :> retriever_filters(p[1], p[2], filter))
                   @@ ("limit" :> limit) @@ ("rerank" :> rerank)
                   @@ ("n_results" :> search_limit(limit, rerank))
                   @@ ("result" :> retrieve_relevant_documents(vector_db, collection, p[1], p[2],
                                                               filter, limit, rerank))
        /\ UNCHANGED <<collection, _agent_cache, next_uuid, origin, created_agents>>
        /\ UNCHANGED registry_vars

NextDocs == AddDocuments \/ RouteGetDocument \/ RouteListDocuments \/ Retrieve

SpecDocs == Init /\ [][NextDocs]_vars

\* C5: every document-returning operation (retrieval, get-document-by-id and
\* list-documents at the request boundary) returns only documents that satisfy
\* the access filter built for the requester's (organization_id, user_id).
C5_ReturnedDocsSatisfyAccessFilter ==
    last["op"] \in {"route.get_document", "route.list_documents", "retrieve_relevant_documents"} =>
        \A i \in DOMAIN last["result"] :
            Matches(get_access_filters(last["organization_id"], last["user_id"], None, EmptyDict),
                    last["result"][i].metadata)

(***************************************************************************)
(* The agent specification starts from a collection that earlier requests  *)
(* filled (three documents of org1, one of org2) and from empty caches, as *)
(* after a restart of the service.                                         *)
(***************************************************************************)
KnowledgeMetadata(organization_id, user_id, visibility) ==
    ("organization_id" :> organization_id) @@ ("user_id" :> user_id) @@ ("visibility" :> visibility)

Corpus ==
    << Document(1, Str("t1"), KnowledgeMetadata("org1", "alice", PRIVATE)),
       Document(2, Str("t1"), KnowledgeMetadata("org1", "bob", PRIVATE)),
       Document(3, Str("t1"), KnowledgeMetadata("org1", "alice", SHARED)),
       Document(4, Str("t1"), KnowledgeMetadata("org2", "carol", SHARED)) >>

MISSING_ID == 0

InitAgents ==
    /\ collection = Corpus
    /\ _VECTOR_DB_INSTANCES = EmptyDict
    /\ _agent_cache = EmptyDict
    /\ next_uuid = Len(Corpus)
    /\ origin = [i \in 1..Len(Corpus) |->
                    <<Corpus[i].metadata["organization_id"], Corpus[i].metadata["user_id"]>>]
    /\ created_agents = EmptyDict
    /\ last = ("op" :> "init")
    /\ DefaultRegistries

\* arguments of create_agent: <<document_ids, document_filter>>
CreateArguments ==
    { <<Some(<<1, 2, 4>>), None>> }

\* arguments of update_agent: <<name, document_ids, document_filter>>
UpdateArguments ==
    { <<Some("n2"), None, Some(("visibility" :> Eq(SHARED)))>>,
      <<None, Some(<<2, 3, 4, MISSING_ID>>), None>> }

AgentIds == (DOMAIN created_agents) \cup {MISSING_ID}

\* clear_vector_db_cache, services/vector_databases/__init__.py lines 91-94
ClearVectorDbCache ==
    /\ _VECTOR_DB_INSTANCES # EmptyDict
    /\ _VECTOR_DB_INSTANCES' = EmptyDict
    /\ last' = ("op" :> "clear_vector_db_cache")
    /\ UNCHANGED <<collection, _agent_cache, next_uuid, origin, created_agents>>
    /\ UNCHANGED registry_vars

CreateAgent ==
    \E p \in Principals, arguments \in CreateArguments :
        LET document_ids == arguments[1]
            document_filter == arguments[2]
            vector_db == get_vector_db(_VECTOR_DB_INSTANCES, p[1])
            agent_id == next_uuid + 1
            agent_doc_id == next_uuid + 2
        IN  /\ Cardinality(DOMAIN created_agents) < MaxAgents
            /\ _VECTOR_DB_INSTANCES' = instances_after_get_vector_db(_VECTOR_DB_INSTANCES, p[1])
            /\ next_uuid' = next_uuid + 2
            /\ collection' = create_agent(vector_db, collection, agent_id, agent_doc_id, p[1], p[2],
                                          "n1", "i1", "d1", document_ids, document_filter, None)
            /\ origin' = DictSet(origin, agent_doc_id, p)
            /\ created_agents' = DictSet(created_agents, agent_id,
                                         [organization_id |-> p[1], created_by |-> p[2],
                                          document_id |-> agent_doc_id, deleted |-> FALSE])
            /\ last' = Call("create_agent", p) @@ ("agent_id" :> agent_id)
                       @@ ("document_ids" :> document_ids)
                       @@ ("document_count" :> create_agent_document_count(document_ids))
            /\ UNCHANGED _agent_cache
            /\ UNCHANGED registry_vars

GetAgent ==
    \E p \in Principals, agent_id \in AgentIds :
        LET vector_db == get_vector_db(_VECTOR_DB_INSTANCES, p[1]) IN
        /\ _VECTOR_DB_INSTANCES' = instances_after_get_vector_db(_VECTOR_DB_INSTANCES, p[1])
        /\ last' = Call("get_agent", p) @@ ("agent_id" :> agent_id)
                   @@ ("result" :> get_agent(vector_db, collection, agent_id, p[1], p[2]))
        /\ UNCHANGED <<collection, _agent_cache, next_uuid, origin, created_agents>>
        /\ UNCHANGED registry_vars

UpdateAgent ==
    \E p \in Principals, agent_id \in AgentIds, arguments \in UpdateArguments :
        LET name == arguments[1]
            document_ids == arguments[2]
            document_filter == arguments[3]
            vector_db == get_vector_db(_VECTOR_DB_INSTANCES, p[1])
            r == update_agent(vector_db, collection, _agent_cache, agent_id, p[1], p[2],
                              name, None, None, document_ids, document_filter, None)
        IN  /\ _VECTOR_DB_INSTANCES' = instances_after_get_vector_db(_VECTOR_DB_INSTANCES, p[1])
            /\ collection' = r.collection
            /\ _agent_cache' = r.cache
            /\ last' = Call("update_agent", p) @@ ("agent_id" :> agent_id)
                       @@ ("document_ids" :> document_ids)
                       @@ ("result" :> r.result)
            /\ UNCHANGED <<next_uuid, origin, created_agents>>
            /\ UNCHANGED registry_vars

DeleteAgent ==
    \E p \in Principals, agent_id \in AgentIds :
        LET vector_db == get_vector_db(_VECTOR_DB_INSTANCES, p[1])
            r == delete_agent(vector_db, collection, _agent_cache, agent_id, p[1], p[2])
        IN  /\ _VECTOR_DB_INSTANCES' = instances_after_get_vector_db(_VECTOR_DB_INSTANCES, p[1])
            /\ collection' = r.collection
            /\ _agent_cache' = r.cache
            /\ last' = Call("delete_agent", p) @@ ("agent_id" :> agent_id)
                       @@ ("result" :> r.result)
            /\ created_agents' = IF r.result
                                 THEN [created_agents EXCEPT ![agent_id].deleted = TRUE]
                                 ELSE created_agents
            /\ UNCHANGED <<next_uuid, origin>>
            /\ UNCHANGED registry_vars

\* chat_with_agent(stream=False) called by the creator of the agent
ChatWithOwnAgent ==
    \E agent_id \in DOMAIN created_agents :
        \E p \in {<<created_agents[agent_id].organization_id, created_agents[agent_id].created_by>>} :
        LET vector_db == get_vector_db(_VECTOR_DB_INSTANCES, p[1])
            r == get_agent_instance(vector_db, collection, _agent_cache, agent_id, p[1], p[2])
        IN  /\ _VECTOR_DB_INSTANCES' = instances_after_get_vector_db(_VECTOR_DB_INSTANCES, p[1])
            /\ _agent_cache' = r.cache
            /\ last' = Call("chat_with_agent", p) @@ ("agent_id" :> agent_id)
                       @@ ("result" :> IF r.agent = None
                                       THEN None
                                       ELSE Some([agent |-> r.agent[1],
                                                  docs |-> retrieve_relevant_docs(r.agent[1], vector_db,
                                                                                  collection)]))
            /\ UNCHANGED <<collection, next_uuid, origin, created_agents>>
            /\ UNCHANGED registry_vars

\* chat_with_agent(stream=False): the instance that serves the request and the
\* documents it retrieves; None stands for ValueError("Agent not found")
ChatWithAgent ==
    \E p \in Principals, agent_id \in AgentIds :
        LET vector_db == get_vector_db(_VECTOR_DB_INSTANCES, p[1])
            r == get_agent_instance(vector_db, collection, _agent_cache, agent_id, p[1], p[2])
        IN  /\ _VECTOR_DB_INSTANCES' = instances_after_get_vector_db(_VECTOR_DB_INSTANCES, p[1])
            /\ _agent_cache' = r.cache
            /\ last' = Call("chat_with_agent", p) @@ ("agent_id" :> agent_id)
                       @@ ("result" :> IF r.agent = None
                                       THEN None
                                       ELSE Some([agent |-> r.agent[1],
                                                  docs |-> retrieve_relevant_docs(r.agent[1], vector_db,
                                                                                  collection)]))
            /\ UNCHANGED <<collection, next_uuid, origin, created_agents>>
            /\ UNCHANGED registry_vars

NextAgents ==
    \/ CreateAgent
    \/ GetAgent
    \/ UpdateAgent
    \/ DeleteAgent
    \/ ChatWithAgent
    \/ ClearVectorDbCache

SpecAgents == InitAgents /\ [][NextAgents]_vars

\* Ownership: agents are created, modified, deleted and used in chats.
NextOwnership ==
    \/ CreateAgent
    \/ UpdateAgent
    \/ DeleteAgent
    \/ ChatWithOwnAgent

SpecOwnership == InitAgents /\ [][NextOwnership]_vars

\* Association: agents are created, modified and deleted while the registry of
\* vector database instances is cleared and refilled.
\* filters a list request can carry
ListFilters ==
    { None, Some(("organization_id" :> Eq("org2")) @@ ("user_id" :> Eq("alice"))) }

ListAgents ==
    \E p \in Principals, filter \in ListFilters :
        LET vector_db == get_vector_db(_VECTOR_DB_INSTANCES, p[1]) IN
        /\ _VECTOR_DB_INSTANCES' = instances_after_get_vector_db(_VECTOR_DB_INSTANCES, p[1])
        /\ last' = Call("list_agents", p)
                   @@ ("result" :> list_agents(vector_db, collection, p[1], p[2], filter,
                                               LIST_AGENTS_LIMIT, 0))
        /\ UNCHANGED <<collection, _agent_cache, next_uuid, origin, created_agents>>
        /\ UNCHANGED registry_vars

\* vector_db.delete_documents([document_id]) on a document of the corpus that
\* the agents are created with
CorpusDocumentIds == {1}

VdbDeleteCorpusDocument ==
    \E organization_id \in Orgs, document_id \in CorpusDocumentIds :
        LET vector_db == get_vector_db(_VECTOR_DB_INSTANCES, organization_id)
            r == delete_documents(vector_db, collection, <<document_id>>)
        IN  /\ _VECTOR_DB_INSTANCES' = instances_after_get_vector_db(_VECTOR_DB_INSTANCES, organization_id)
            /\ collection' = r.collection
            /\ last' = ("op" :> "vdb.delete_documents") @@ ("organization_id" :> organization_id)
                       @@ ("document_id" :> document_id)
                       @@ ("existed" :> (document_id \in collection_ids(collection)))
                       @@ ("result" :> r.result)
            /\ UNCHANGED <<_agent_cache, next_uuid, origin, created_agents>>
            /\ UNCHANGED registry_vars

\* Counting: agents are created, modified, deleted, read and listed and a
\* document is deleted; the shared instance is the one the first request made.
NextCounting ==
    \/ CreateAgent
    \/ UpdateAgent
    \/ DeleteAgent
    \/ GetAgent
    \/ ListAgents
    \/ VdbDeleteCorpusDocument

SpecCounting == InitAgents /\ [][NextCounting]_vars

NextAssociation ==
    \/ CreateAgent
    \/ UpdateAgent
    \/ DeleteAgent
    \/ ClearVectorDbCache

SpecAssociation == InitAgents /\ [][NextAssociation]_vars

\* the stored record with the given id
stored(coll, id) == collection_get(coll, <<id>>)[1]

\* the ids of the stored documents of the organization that list the agent
listing(coll, organization_id, agent_id) ==
    {coll[i].id : i \in {j \in DOMAIN coll :
        /\ coll[j].metadata["organization_id"] = organization_id
        /\ "associated_agents" \in DOMAIN coll[j].metadata
        /\ InList(agent_id, coll[j].metadata["associated_agents"])}}

\* the stored agent_metadata documents of the agent
metadata_documents(coll, agent_id) ==
    {coll[i].id : i \in {j \in DOMAIN coll :
        /\ "document_type" \in DOMAIN coll[j].metadata
        /\ coll[j].metadata["document_type"] = "agent_metadata"
        /\ coll[j].metadata["agent_id"] = agent_id}}

\* C4: every document retrieved while serving a chat request of user U
\* satisfies the access filter for (organization_id, U).
C4_ChatRetrievesOnlyAccessible ==
    (last["op"] = "chat_with_agent" /\ last["result"] # None) =>
        \A i \in DOMAIN last["result"][1].docs :
            Matches(get_access_filters(last["organization_id"], last["user_id"], None, EmptyDict),
                    last["result"][1].docs[i].metadata)

\* C6: after a successful update_agent or delete_agent of agent A in
\* organization O the instance cache holds no entry for (O, A).
C6_CacheInvalidated ==
    ( \/ (last["op"] = "update_agent" /\ last["result"] # None)
      \/ (last["op"] = "delete_agent" /\ last["result"] = TRUE) )
    => instance_cache_key(last["organization_id"], last["agent_id"]) \notin DOMAIN _agent_cache

\* C7: once delete_agent(A) has returned success, no document of the
\* organization lists A, no agent_metadata document of A exists and
\* get_agent(A) returns absent, in every later state.
C7_DeletedAgentIsGone ==
    \A agent_id \in DOMAIN created_agents :
        created_agents[agent_id].deleted =>
            LET organization_id == created_agents[agent_id].organization_id IN
            /\ listing(collection, organization_id, agent_id) = {}
            /\ metadata_documents(collection, agent_id) = {}
            /\ get_agent(get_vector_db(_VECTOR_DB_INSTANCES, organization_id), collection,
                         agent_id, organization_id, created_agents[agent_id].created_by) = None

\* C8: after a successful update_agent(A, document_ids = S) the documents of
\* the organization that list A are exactly the documents in S that exist and
\* belong to the organization.
C8_AssociationsReplaced ==
    (last["op"] = "update_agent" /\ last["result"] # None /\ last["document_ids"] # None) =>
        listing(collection, last["organization_id"], last["agent_id"])
          = {id \in Range(last["document_ids"][1]) :
                /\ id \in collection_ids(collection)
                /\ stored(collection, id).metadata["organization_id"] = last["organization_id"]}

\* C2: under the shared-collection strategy, get_document returns absent and
\* update_document and delete_documents return false when the addressed
\* document was added by another organization than the caller's, even though
\* the exact id is supplied.
C2_CrossTenantRejected ==
    IF last["op"] = "vdb.get_document"
    THEN (last["document_id"] \in collection_ids(collection)
            /\ origin[last["document_id"]][1] # last["organization_id"])
         => last["result"] = None
    ELSE IF last["op"] = "vdb.update_document"
    THEN (last["document_id"] \in collection_ids(collection)
            /\ origin[last["document_id"]][1] # last["organization_id"])
         => last["result"] = FALSE
    ELSE IF last["op"] = "vdb.delete_documents"
    THEN (last["existed"] /\ origin[last["document_id"]][1] # last["organization_id"])
         => last["result"] = FALSE
    ELSE TRUE

\* C3: a document written by a request of organization O through the instance
\* get_vector_db(O) returns is stored with organization_id = O, whichever
\* organization caused the shared instance to be constructed.
C3_WriteStampsCallerOrg ==
    last["op"] = "add_documents" =>
        stored(collection, last["document_id"]).metadata["organization_id"] = last["organization_id"]

NextFilter == GetAccessFilters

SpecFilter == Init /\ [][NextFilter]_vars

listing_any(coll, agent_id) ==
    {coll[i].id : i \in {j \in DOMAIN coll :
        /\ "associated_agents" \in DOMAIN coll[j].metadata
        /\ InList(agent_id, coll[j].metadata["associated_agents"])}}

\* the request recorded in last is an update_agent or delete_agent on an
\* existing agent by a user other than its creator
unauthorized_call(request) ==
    /\ request["op"] \in {"update_agent", "delete_agent"}
    /\ request["agent_id"] \in DOMAIN created_agents
    /\ request["user_id"] # created_agents[request["agent_id"]].created_by

\* C9: update_agent or delete_agent called by a user other than the agent's
\* creator fails and mutates nothing: the collection (agent metadata and every
\* document's associated_agents) and the instance cache stay as they were.
C9_UnauthorizedCallMutatesNothing ==
    [][ unauthorized_call(last') =>
            /\ collection' = collection
            /\ _agent_cache' = _agent_cache
            /\ IF last'["op"] = "update_agent"
               THEN last'["result"] = None
               ELSE last'["result"] = FALSE ]_vars

\* a user of the agent's organization other than its creator was refused while
\* the agent had associated documents and a cached instance
C9_Witness ==
    /\ unauthorized_call(last)
    /\ last["organization_id"] = created_agents[last["agent_id"]].organization_id
    /\ ~created_agents[last["agent_id"]].deleted
    /\ listing_any(collection, last["agent_id"]) # {}
    /\ instance_cache_key(last["organization_id"], last["agent_id"]) \in DOMAIN _agent_cache

\* C10: after create_agent or update_agent with a list of document ids, a
\* document lists the agent only if it exists and its stored
\* organization_id is the agent's; the documents of other organizations are
\* left as they were.
C10_OnlyOwnDocumentsAssociated ==
    [][ ( /\ last'["op"] \in {"create_agent", "update_agent"}
          /\ last'["document_ids"] # None
          /\ last'["agent_id"] \in DOMAIN created_agents' ) =>
            LET organization_id == created_agents'[last'["agent_id"]].organization_id IN
            /\ \A id \in listing_any(collection', last'["agent_id"]) :
                   /\ id \in collection_ids(collection)
                   /\ stored(collection', id).metadata["organization_id"] = organization_id
            /\ \A i \in DOMAIN collection :
                   collection[i].metadata["organization_id"] # organization_id
                       => collection'[i] = collection[i] ]_vars

\* a call listed a missing id and a document of another organization, and the
\* agent ended up associated with one of the organization's documents only
C10_Witness ==
    /\ last["op"] \in {"create_agent", "update_agent"}
    /\ last["document_ids"] # None
    /\ \E id \in Range(last["document_ids"][1]) :
           /\ id \in collection_ids(collection)
           /\ stored(collection, id).metadata["organization_id"] # last["organization_id"]
           /\ "associated_agents" \notin DOMAIN stored(collection, id).metadata
    /\ listing_any(collection, last["agent_id"]) # {}

(***************************************************************************)
(* The provider registries under configuration changes: get_llm_provider,  *)
(* get_vector_db and get_search_provider with register_*, clear_* and      *)
(* Settings.update_company_config.                                         *)
(***************************************************************************)
MaxObjects == 3

\* the process starts with or without the SerpAPI credential in its environment
InitRegistry ==
    /\ collection = <<>>
    /\ _VECTOR_DB_INSTANCES = EmptyDict
    /\ _agent_cache = EmptyDict
    /\ next_uuid = 0
    /\ origin = EmptyDict
    /\ created_agents = EmptyDict
    /\ last = ("op" :> "init")
    /\ settings \in { [DefaultSettings EXCEPT !.SERPAPI_API_KEY = k] : k \in {None, Some("serp-key")} }
    /\ _VECTOR_DB_REGISTRY = ("chroma" :> "ChromaDBProvider") @@ ("qdrant" :> "QdrantProvider")
    /\ _PROVIDER_REGISTRY = ("openai" :> "OpenAIProvider") @@ ("ollama" :> "OllamaProvider")
    /\ _PROVIDER_INSTANCES = EmptyDict
    /\ _SEARCH_PROVIDER_REGISTRY = ("serpapi" :> "SerpAPIProvider")
    /\ _SEARCH_PROVIDER_INSTANCES = EmptyDict
    /\ next_object = 0
    /\ handed_out = [llm |-> EmptyDict, vector |-> EmptyDict, search |-> EmptyDict]
    /\ requests = EmptyDict

\* the organization whose configuration is changed, and the changes applied
ConfiguredOrgs == {"org1"}
ConfigUpdates ==
    { ("llm_provider" :> "ollama"),
      ("llm_provider" :> "mistral"),
      ("openai_api_key" :> "sk-org1"),
      ("openai_model" :> "gpt-4"),
      ("vector_db" :> "pinecone") @@ ("shared_vector_db" :> FALSE) }

\* register_provider / register_vector_db / register_search_provider arguments
LlmRegistrations == { <<"openai", "OllamaProvider">> }
VectorDbRegistrations == { <<"chroma", "QdrantProvider">> }
SearchRegistrations == { <<"serpapi", "SerpAPIProvider">> }
SearchProviderNames == { None, Some("serpapi"), Some("bing") }

\* what a resolve leaves in the request record
ResolveCall(op, cache_key, name, handed, resolved) ==
    ("op" :> op) @@ ("cache_key" :> cache_key) @@ ("provider_name" :> name)
    @@ ("before" :> IF cache_key \in DOMAIN handed THEN Some(handed[cache_key]) ELSE None)
    @@ ("raised" :> resolved.raised) @@ ("error" :> resolved.error)
    @@ ("instance" :> resolved.instance)

\* the objects a registry has handed out, after a resolve
handed_after(handed, cache_key, resolved) ==
    IF resolved.raised THEN handed ELSE DictSet(handed, cache_key, resolved.instance[1].object)

\* the object counter after a resolve: a returned object that was not in the
\* cache before was allocated by this call
objects_after(instances, resolved) ==
    IF ~resolved.raised /\ resolved.instance[1].object = next_object
    THEN next_object + 1
    ELSE next_object

UpdateCompanyConfig ==
    \E organization_id \in ConfiguredOrgs, config \in ConfigUpdates :
        /\ settings' = update_company_config(settings, organization_id, config)
        /\ settings' # settings
        /\ last' = ("op" :> "update_company_config") @@ ("organization_id" :> organization_id)
        /\ UNCHANGED <<_VECTOR_DB_REGISTRY, _PROVIDER_REGISTRY, _SEARCH_PROVIDER_REGISTRY>>
        /\ UNCHANGED <<_VECTOR_DB_INSTANCES, _PROVIDER_INSTANCES, _SEARCH_PROVIDER_INSTANCES>>
        /\ UNCHANGED <<next_object, handed_out>>
        /\ UNCHANGED <<store_vars, requests>>

\* register_provider, services/llm_providers/__init__.py lines 24-33
RegisterProvider ==
    \E r \in LlmRegistrations :
        /\ _PROVIDER_REGISTRY' = DictSet(_PROVIDER_REGISTRY, r[1], r[2])
        /\ _PROVIDER_REGISTRY' # _PROVIDER_REGISTRY
        /\ last' = ("op" :> "register_provider") @@ ("provider_name" :> r[1])
        /\ UNCHANGED <<settings, _VECTOR_DB_REGISTRY, _SEARCH_PROVIDER_REGISTRY>>
        /\ UNCHANGED <<_VECTOR_DB_INSTANCES, _PROVIDER_INSTANCES, _SEARCH_PROVIDER_INSTANCES>>
        /\ UNCHANGED <<next_object, handed_out>>
        /\ UNCHANGED <<store_vars, requests>>

\* register_vector_db, services/vector_databases/__init__.py lines 24-33
RegisterVectorDb ==
    \E r \in VectorDbRegistrations :
        /\ _VECTOR_DB_REGISTRY' = DictSet(_VECTOR_DB_REGISTRY, r[1], r[2])
        /\ _VECTOR_DB_REGISTRY' # _VECTOR_DB_REGISTRY
        /\ last' = ("op" :> "register_vector_db") @@ ("provider_name" :> r[1])
        /\ UNCHANGED <<settings, _PROVIDER_REGISTRY, _SEARCH_PROVIDER_REGISTRY>>
        /\ UNCHANGED <<_VECTOR_DB_INSTANCES, _PROVIDER_INSTANCES, _SEARCH_PROVIDER_INSTANCES>>
        /\ UNCHANGED <<next_object, handed_out>>
        /\ UNCHANGED <<store_vars, requests>>

\* register_search_provider, services/websearch/__init__.py lines 22-31
RegisterSearchProvider ==
    \E r \in SearchRegistrations :
        /\ _SEARCH_PROVIDER_REGISTRY' = DictSet(_SEARCH_PROVIDER_REGISTRY, r[1], r[2])
        /\ last' = ("op" :> "register_search_provider") @@ ("provider_name" :> r[1])
        /\ UNCHANGED <<settings, _VECTOR_DB_REGISTRY, _PROVIDER_REGISTRY>>
        /\ UNCHANGED <<_VECTOR_DB_INSTANCES, _PROVIDER_INSTANCES, _SEARCH_PROVIDER_INSTANCES>>
        /\ UNCHANGED <<next_object, handed_out>>
        /\ UNCHANGED <<store_vars, requests>>

GetLlmProvider ==
    \E organization_id \in Orgs :
        LET cache_key == llm_cache_key(settings, organization_id)
            resolved == get_llm_provider(settings, _PROVIDER_REGISTRY, _PROVIDER_INSTANCES,
                                         next_object, organization_id)
        IN  /\ next_object < MaxObjects
            /\ _PROVIDER_INSTANCES' = resolved.instances
            /\ next_object' = objects_after(_PROVIDER_INSTANCES, resolved)
            /\ handed_out' = [handed_out EXCEPT !.llm = handed_after(@, cache_key, resolved)]
            /\ last' = ResolveCall("get_llm_provider", cache_key,
                                   get_llm_provider_for_company(settings, organization_id),
                                   handed_out.llm, resolved)
                       @@ ("organization_id" :> organization_id)
            /\ UNCHANGED <<settings, _VECTOR_DB_REGISTRY, _PROVIDER_REGISTRY, _SEARCH_PROVIDER_REGISTRY>>
            /\ UNCHANGED <<_VECTOR_DB_INSTANCES, _SEARCH_PROVIDER_INSTANCES>>
            /\ UNCHANGED <<store_vars, requests>>

GetVectorDb ==
    \E organization_id \in Orgs :
        LET cache_key == vector_db_cache_key(settings, organization_id)
            resolved == get_vector_db_configured(settings, _VECTOR_DB_REGISTRY, _VECTOR_DB_INSTANCES,
                                                 next_object, organization_id)
        IN  /\ next_object < MaxObjects
            /\ _VECTOR_DB_INSTANCES' = resolved.instances
            /\ next_object' = objects_after(_VECTOR_DB_INSTANCES, resolved)
            /\ handed_out' = [handed_out EXCEPT !.vector = handed_after(@, cache_key, resolved)]
            /\ last' = ResolveCall("get_vector_db", cache_key,
                                   DictGet(company_config_of(settings, organization_id),
                                           "vector_db", DEFAULT_VECTOR_DB),
                                   handed_out.vector, resolved)
                       @@ ("organization_id" :> organization_id)
            /\ UNCHANGED <<settings, _VECTOR_DB_REGISTRY, _PROVIDER_REGISTRY, _SEARCH_PROVIDER_REGISTRY>>
            /\ UNCHANGED <<_PROVIDER_INSTANCES, _SEARCH_PROVIDER_INSTANCES>>
            /\ UNCHANGED <<store_vars, requests>>

GetSearchProvider ==
    \E provider_name \in SearchProviderNames :
        LET cache_key == search_cache_key(provider_name)
            resolved == get_search_provider(settings, _SEARCH_PROVIDER_REGISTRY,
                                            _SEARCH_PROVIDER_INSTANCES, next_object, provider_name)
        IN  /\ next_object < MaxObjects
            /\ _SEARCH_PROVIDER_INSTANCES' = resolved.instances
            /\ next_object' = objects_after(_SEARCH_PROVIDER_INSTANCES, resolved)
            /\ handed_out' = [handed_out EXCEPT !.search = handed_after(@, cache_key, resolved)]
            /\ last' = ResolveCall("get_search_provider", cache_key, cache_key,
                                   handed_out.search, resolved)
            /\ UNCHANGED <<settings, _VECTOR_DB_REGISTRY, _PROVIDER_REGISTRY, _SEARCH_PROVIDER_REGISTRY>>
            /\ UNCHANGED <<_VECTOR_DB_INSTANCES, _PROVIDER_INSTANCES>>
            /\ UNCHANGED <<store_vars, requests>>

\* clear_provider_cache, services/llm_providers/__init__.py lines 86-89
ClearProviderCache ==
    /\ _PROVIDER_INSTANCES' = cleared(_PROVIDER_INSTANCES)
    /\ handed_out' = [handed_out EXCEPT !.llm = EmptyDict]
    /\ last' = ("op" :> "clear_provider_cache")
    /\ UNCHANGED <<settings, _VECTOR_DB_REGISTRY, _PROVIDER_REGISTRY, _SEARCH_PROVIDER_REGISTRY>>
    /\ UNCHANGED <<_VECTOR_DB_INSTANCES, _SEARCH_PROVIDER_INSTANCES, next_object>>
    /\ UNCHANGED <<store_vars, requests>>

\* clear_vector_db_cache, services/vector_databases/__init__.py lines 91-94
ClearVectorDbInstances ==
    /\ _VECTOR_DB_INSTANCES' = cleared(_VECTOR_DB_INSTANCES)
    /\ handed_out' = [handed_out EXCEPT !.vector = EmptyDict]
    /\ last' = ("op" :> "clear_vector_db_cache")
    /\ UNCHANGED <<settings, _VECTOR_DB_REGISTRY, _PROVIDER_REGISTRY, _SEARCH_PROVIDER_REGISTRY>>
    /\ UNCHANGED <<_PROVIDER_INSTANCES, _SEARCH_PROVIDER_INSTANCES, next_object>>
    /\ UNCHANGED <<store_vars, requests>>

\* clear_search_provider_cache, services/websearch/__init__.py lines 71-74
ClearSearchProviderCache ==
    /\ _SEARCH_PROVIDER_INSTANCES' = cleared(_SEARCH_PROVIDER_INSTANCES)
    /\ handed_out' = [handed_out EXCEPT !.search = EmptyDict]
    /\ last' = ("op" :> "clear_search_provider_cache")
    /\ UNCHANGED <<settings, _VECTOR_DB_REGISTRY, _PROVIDER_REGISTRY, _SEARCH_PROVIDER_REGISTRY>>
    /\ UNCHANGED <<_VECTOR_DB_INSTANCES, _PROVIDER_INSTANCES, next_object>>
    /\ UNCHANGED <<store_vars, requests>>

NextRegistry ==
    \/ UpdateCompanyConfig
    \/ RegisterProvider
    \/ RegisterVectorDb
    \/ RegisterSearchProvider
    \/ GetLlmProvider
    \/ GetVectorDb
    \/ GetSearchProvider
    \/ ClearProviderCache
    \/ ClearVectorDbInstances
    \/ ClearSearchProviderCache

SpecRegistry == InitRegistry /\ [][NextRegistry]_vars

ResolveOps == {"get_llm_provider", "get_vector_db", "get_search_provider"}

\* C11: two resolve calls of a registry with the same tenant context (the same
\* cache key) return the identical instance object, as long as the registry's
\* cache was not cleared between them: a resolve whose key was already handed
\* out since the last clear returns, without raising, the object handed out then.
C11_SameContextSameInstance ==
    (last["op"] \in ResolveOps /\ last["before"] # None) =>
        /\ ~last["raised"]
        /\ last["instance"][1].object = last["before"][1]

C11_Witness ==
    /\ last["op"] = "get_vector_db"
    /\ last["before"] # None
    /\ ~last["raised"]
    /\ last["instance"][1].organization_id # last["organization_id"]

\* the instance cache and the handed-out history of the registry an operation belongs to
instances_of(op) ==
    CASE op \in {"get_llm_provider", "clear_provider_cache"} -> _PROVIDER_INSTANCES
      [] op \in {"get_vector_db", "clear_vector_db_cache"} -> _VECTOR_DB_INSTANCES
      [] OTHER -> _SEARCH_PROVIDER_INSTANCES

\* C12: between two clears of a registry every resolve of a key returns the
\* same instance, also after update_company_config or a repeated register_*:
\* these two leave every instance cache as it is, a resolve of a key handed out
\* since the last clear returns the object handed out then, a clear leaves the
\* registry's cache empty, and a resolve of a key not handed out since the last
\* clear returns an object that did not exist before the call.
C12_InstancesLiveFromClearToClear ==
    [][/\ last'["op"] \in {"update_company_config", "register_provider", "register_vector_db",
                           "register_search_provider"} =>
            /\ _PROVIDER_INSTANCES' = _PROVIDER_INSTANCES
            /\ _VECTOR_DB_INSTANCES' = _VECTOR_DB_INSTANCES
            /\ _SEARCH_PROVIDER_INSTANCES' = _SEARCH_PROVIDER_INSTANCES
       /\ (last'["op"] \in ResolveOps /\ ~last'["raised"]) =>
            IF last'["before"] # None
            THEN last'["instance"][1].object = last'["before"][1]
            ELSE last'["instance"][1].object >= next_object
       /\ last'["op"] \in {"clear_provider_cache", "clear_vector_db_cache",
                           "clear_search_provider_cache"} =>
            DOMAIN instances_of(last["op"])' = {}
      ]_vars

\* a provider constructed before the model was configured and before the name
\* was registered again is still the one returned
C12_Witness ==
    /\ last["op"] = "get_llm_provider"
    /\ last["before"] # None
    /\ ~last["raised"]
    /\ last["provider_name"] = "openai"
    /\ last["instance"][1].class # _PROVIDER_REGISTRY["openai"]
    /\ last["instance"][1].model # DictGet(company_config_of(settings, last["organization_id"]),
                                          "openai_model", OPENAI_DEFAULT_MODEL)
    /\ last["instance"][1].object > 0

\* the registry of names an operation resolves in
registry_of(op) ==
    CASE op = "get_llm_provider" -> _PROVIDER_REGISTRY
      [] op = "get_vector_db" -> _VECTOR_DB_REGISTRY
      [] OTHER -> _SEARCH_PROVIDER_REGISTRY

\* C13: in each of the three registries a resolve of a provider name that is
\* not registered does not raise; it returns an instance (of the default provider).
C13_UnregisteredNameFallsBack ==
    (last["op"] \in ResolveOps /\ last["provider_name"] \notin DOMAIN registry_of(last["op"])) =>
        /\ ~last["raised"]
        /\ last["instance"] # None

\* whether the constructor that a resolve of the last request would call raises
factory_fails ==
    CASE last["op"] = "get_llm_provider" ->
            construct_llm_provider(llm_provider_class(settings, _PROVIDER_REGISTRY,
                                                      last["organization_id"]),
                                   next_object, last["organization_id"],
                                   company_config_of(settings, last["organization_id"]),
                                   settings).raised
      [] last["op"] = "get_search_provider" ->
            /\ last["provider_name"] \in DOMAIN _SEARCH_PROVIDER_REGISTRY
            /\ SerpAPIProvider(next_object, settings).raised
      [] OTHER -> FALSE

C15_ExtrasOnlyNarrow ==
    last["op"] = "get_access_filters" =>
        \A md \in MetadataSpace :
            Matches(last["result"], md) =>
                Matches(get_access_filters(last["organization_id"], last["user_id"],
                                           last["visibility"], EmptyDict), md)

\* C16: in retrieve_relevant_documents the caller's filter changes none of
\* organization_id, user_id and "$or" of the access filter, and every document
\* the merged filter accepts is accepted by the access filter alone.
C16_CallerFilterOnlyNarrows ==
    last["op"] = "retrieve_relevant_documents" =>
        LET access == get_access_filters(last["organization_id"], last["user_id"], None, EmptyDict)
            merged == last["access_filters"]
        IN  /\ \A key \in {"organization_id", "user_id", "$or"} :
                  /\ key \in DOMAIN merged <=> key \in DOMAIN access
                  /\ key \in DOMAIN access => merged[key] = access[key]
            /\ \A md \in MetadataSpace : Matches(merged, md) => Matches(access, md)
            /\ \A i \in DOMAIN last["result"] : Matches(access, last["result"][i].metadata)

\* the caller's filter names another organization and user, or an "$or" of its
\* own, and documents are returned
C16_Witness ==
    /\ last["op"] = "retrieve_relevant_documents"
    /\ last["filter_dict"] # None
    /\ DOMAIN last["filter_dict"][1] \cap {"organization_id", "user_id", "$or"} # {}
    /\ last["result"] # <<>>

\* the reference visibility policy: whether the requester may see a document
\* with metadata md under the visibility list (None when unspecified)
visibility_policy(organization_id, user_id, visibility, md) ==
    /\ md["organization_id"] = organization_id
    /\ IF visibility = None
       THEN md["user_id"] = user_id \/ md["visibility"] \in {SHARED, PUBLIC}
       ELSE LET listed == {visibility[1][i] : i \in DOMAIN visibility[1]} IN
            IF listed = {PRIVATE}
            THEN md["user_id"] = user_id
            ELSE IF PRIVATE \in listed
                 THEN md["user_id"] = user_id \/ md["visibility"] \in listed \ {PRIVATE}
                 ELSE md["visibility"] \in listed

\* C17: the filter get_access_filters builds from (organization_id, user_id,
\* visibility) accepts a document exactly when the reference visibility policy
\* does, for every visibility list and every document.
C17_MatchesVisibilityPolicy ==
    (last["op"] = "get_access_filters" /\ last["additional_filters"] = EmptyDict) =>
        \A md \in MetadataSpace :
            Matches(last["result"], md)
                <=> visibility_policy(last["organization_id"], last["user_id"],
                                      last["visibility"], md)

\* private is listed together with another level: the filter accepts a shared
\* document of another user and rejects a private one
C17_Witness ==
    /\ last["op"] = "get_access_filters"
    /\ last["additional_filters"] = EmptyDict
    /\ last["visibility"] = Some(<<SHARED, PRIVATE>>)
    /\ \E md \in MetadataSpace :
          md["user_id"] # last["user_id"] /\ md["visibility"] = SHARED /\ Matches(last["result"], md)
    /\ \E md \in MetadataSpace :
          /\ md["organization_id"] = last["organization_id"]
          /\ md["user_id"] # last["user_id"]
          /\ md["visibility"] = PRIVATE
          /\ ~Matches(last["result"], md)

\* C18: end to end, a document added with visibility private is returned by
\* the Retriever to the user who added it and to no other user; a document
\* added with visibility shared is returned also to the other users of the
\* adder's organization and never to a user of another organization.  A
\* retrieval without filter returns nothing only if the requester may see
\* none of the stored documents.
C18_RetrieverEndToEnd ==
    last["op"] = "retrieve_relevant_documents" =>
        /\ \A i \in DOMAIN last["result"] :
              LET document == last["result"][i]
                  adder == origin[document.id]
              IN  /\ adder[1] = last["organization_id"]
                  /\ document.metadata["visibility"] = PRIVATE => adder[2] = last["user_id"]
        /\ (last["filter_dict"] = None /\ last["result"] = <<>>) =>
              \A j \in DOMAIN collection :
                  LET adder == origin[collection[j].id] IN
                  ~ /\ adder[1] = last["organization_id"]
                    /\ (adder[2] = last["user_id"] \/ collection[j].metadata["visibility"] = SHARED)

\* Refusal: agents are created, modified and deleted by the users of both
\* organizations.
NextRefusal ==
    \/ CreateAgent
    \/ UpdateAgent
    \/ DeleteAgent

SpecRefusal == InitAgents /\ [][NextRefusal]_vars

\* C19: a caller who is not the agent's creator gets the same outcome from
\* update_agent (None) and from delete_agent (False) whether the agent does not
\* exist, belongs to another organization, or is owned by another user of the
\* caller's organization.
C19_RefusalsIndistinguishable ==
    ( /\ last["op"] \in {"update_agent", "delete_agent"}
      /\ \/ last["agent_id"] \notin DOMAIN created_agents
         \/ created_agents[last["agent_id"]].created_by # last["user_id"] ) =>
        last["result"] = IF last["op"] = "update_agent" THEN None ELSE FALSE

\* a user of the agent's organization who did not create it is answered like a
\* caller asking for an agent that does not exist
C19_Witness ==
    /\ last["op"] = "delete_agent"
    /\ last["agent_id"] \in DOMAIN created_agents
    /\ ~created_agents[last["agent_id"]].deleted
    /\ created_agents[last["agent_id"]].organization_id = last["organization_id"]
    /\ created_agents[last["agent_id"]].created_by # last["user_id"]
    /\ last["result"] = FALSE
    /\ \E i \in DOMAIN collection :
          /\ "agent_id" \in DOMAIN collection[i].metadata
          /\ collection[i].metadata["agent_id"] = last["agent_id"]

\* the number of stored documents of the agent's organization that list the agent
reference_document_count(agent_id) ==
    Cardinality({ j \in DOMAIN collection :
                    /\ collection[j].metadata["organization_id"]
                           = created_agents[agent_id].organization_id
                    /\ "associated_agents" \in DOMAIN collection[j].metadata
                    /\ InList(agent_id, collection[j].metadata["associated_agents"]) })

Outcome(raised, result) == [raised |-> raised, result |-> result]

\* get_document, lines 280-319
get_document_call(self, coll, document_id, backend_fails) ==
    IF backend_fails
    THEN Outcome(FALSE, None)
    ELSE Outcome(FALSE, get_document(self, coll, document_id))

\* list_documents, lines 328-370
list_documents_call(self, coll, filter_dict, limit, offset, backend_fails) ==
    IF backend_fails
    THEN Outcome(FALSE, <<>>)
    ELSE Outcome(FALSE, list_documents(self, coll, filter_dict, limit, offset))

\* count_documents, lines 377-405
count_documents_call(self, coll, filter_dict, backend_fails) ==
    IF backend_fails
    THEN Outcome(FALSE, 0)
    ELSE Outcome(FALSE, count_documents(self, coll, filter_dict))

\* update_document, lines 206-272: [raised, result, collection]
update_document_call(self, coll, document_id, text, metadata, backend_fails) ==
    IF backend_fails
    THEN [raised |-> FALSE, result |-> FALSE, collection |-> coll]
    ELSE LET r == update_document(self, coll, document_id, text, metadata)
         IN  [raised |-> FALSE, result |-> r.result, collection |-> r.collection]

BackendCall(op, organization_id, backend_fails, outcome) ==
    ("op" :> op) @@ ("organization_id" :> organization_id)
    @@ ("backend_failed" :> backend_fails)
    @@ ("raised" :> outcome.raised) @@ ("result" :> outcome.result)

BackendGetDocument ==
    \E organization_id \in Orgs, document_id \in DocumentIds, backend_fails \in BOOLEAN :
        LET vector_db == get_vector_db(_VECTOR_DB_INSTANCES, organization_id) IN
        /\ _VECTOR_DB_INSTANCES' = instances_after_get_vector_db(_VECTOR_DB_INSTANCES, organization_id)
        /\ last' = BackendCall("backend.get_document", organization_id, backend_fails,
                               get_document_call(vector_db, collection, document_id, backend_fails))
        /\ UNCHANGED <<collection, _agent_cache, next_uuid, origin, created_agents>>
        /\ UNCHANGED registry_vars

BackendListDocuments ==
    \E organization_id \in Orgs, limit \in Limits, offset \in Offsets, backend_fails \in BOOLEAN :
        LET vector_db == get_vector_db(_VECTOR_DB_INSTANCES, organization_id) IN
        /\ _VECTOR_DB_INSTANCES' = instances_after_get_vector_db(_VECTOR_DB_INSTANCES, organization_id)
        /\ last' = BackendCall("backend.list_documents", organization_id, backend_fails,
                               list_documents_call(vector_db, collection, EmptyDict, limit, offset,
                                                   backend_fails))
        /\ UNCHANGED <<collection, _agent_cache, next_uuid, origin, created_agents>>
        /\ UNCHANGED registry_vars

BackendCountDocuments ==
    \E organization_id \in Orgs, backend_fails \in BOOLEAN :
        LET vector_db == get_vector_db(_VECTOR_DB_INSTANCES, organization_id) IN
        /\ _VECTOR_DB_INSTANCES' = instances_after_get_vector_db(_VECTOR_DB_INSTANCES, organization_id)
        /\ last' = BackendCall("backend.count_documents", organization_id, backend_fails,
                               count_documents_call(vector_db, collection, EmptyDict, backend_fails))
        /\ UNCHANGED <<collection, _agent_cache, next_uuid, origin, created_agents>>
        /\ UNCHANGED registry_vars

\* update_document(document_id, metadata={"user_id": ..., "visibility": "shared"})
BackendUpdateDocument ==
    \E p \in Principals, document_id \in DocumentIds, backend_fails \in BOOLEAN :
        LET metadata == Some(("user_id" :> p[2]) @@ ("visibility" :> SHARED))
            vector_db == get_vector_db(_VECTOR_DB_INSTANCES, p[1])
            r == update_document_call(vector_db, collection, document_id, None, metadata,
                                      backend_fails)
        IN  /\ _VECTOR_DB_INSTANCES' = instances_after_get_vector_db(_VECTOR_DB_INSTANCES, p[1])
            /\ collection' = r.collection
            /\ last' = BackendCall("backend.update_document", p[1], backend_fails, r)
            /\ UNCHANGED <<_agent_cache, next_uuid, origin, created_agents>>
            /\ UNCHANGED registry_vars

NextBackend ==
    \/ AddDocuments
    \/ BackendGetDocument
    \/ BackendListDocuments
    \/ BackendCountDocuments
    \/ BackendUpdateDocument

SpecBackend == Init /\ [][NextBackend]_vars

BackendOps ==
    {"backend.get_document", "backend.list_documents", "backend.count_documents",
     "backend.update_document"}

\* C21: a get_document, list_documents, count_documents or update_document
\* call during which the backend failed reaches the caller as an error, never
\* as an ordinary result (absent, empty list, zero, false).
C21_BackendFailureReachesCaller ==
    (last["op"] \in BackendOps /\ last["backend_failed"]) => last["raised"]

(***************************************************************************)
(* Retrieval limits                                                        *)
(***************************************************************************)
\* the records the access filter of the request matches, best score first
matching(request) == collection_where(collection, request["access_filters"])

ids_of(documents) == [i \in DOMAIN documents |-> documents[i].id]

\* C22: retrieve_relevant_documents never returns more than limit documents;
\* it asks the backend for 2*limit candidates with rerank and for limit
\* candidates without, and returns the first limit of the matching documents
\* in descending score order: exactly limit of them when at least limit match.
C22_AtMostLimitBestFirst ==
    last["op"] = "retrieve_relevant_documents" =>
        /\ Len(last["result"]) <= last["limit"]
        /\ last["n_results"] = (IF last["rerank"] THEN 2 * last["limit"] ELSE last["limit"])
        /\ ids_of(last["result"]) = ids_of(Take(matching(last), last["limit"]))
        /\ Len(matching(last)) >= last["limit"] => Len(last["result"]) = last["limit"]
        /\ \A i, j \in DOMAIN last["result"] :
               i < j => last["result"][i].score > last["result"][j].score

\* a reranked retrieval with limit 1 against two matching documents
C22_Witness ==
    /\ last["op"] = "retrieve_relevant_documents"
    /\ last["rerank"]
    /\ last["limit"] = 1
    /\ Len(matching(last)) = 2
    /\ Len(last["result"]) = 1

(***************************************************************************)
(* services/rag/generator.py                                               *)
(***************************************************************************)
FALLBACK_SYSTEM_MESSAGE ==
    "You are a helpful assistant. If you don't know the answer to a question, just say that you don't have enough information to provide a reliable answer."

RAG_SYSTEM_MESSAGE ==
    "You are a helpful assistant with access to a knowledge base. Answer the user's question based on the provided context. If the context doesn't contain the necessary information to answer the question, just say that you don't have enough information to provide a reliable answer. Don't make up information that's not in the context."

\* A fallback that always instructs the model to answer from the provided context.
default_system_grounded(system_message) == RAG_SYSTEM_MESSAGE

\* lines 56-59: system_message or (fallback); None and "" are falsy
default_system(system_message) ==
    IF system_message = None \/ system_message = Some("")
    THEN FALLBACK_SYSTEM_MESSAGE
    ELSE system_message[1]

\* lines 87-96
rag_system(system_message) ==
    IF system_message = None \/ system_message = Some("")
    THEN RAG_SYSTEM_MESSAGE
    ELSE system_message[1]

SOURCE_FIELDS == <<"title", "source", "url", "date", "author">>

\* format_documents_for_context: one part per document, numbered from 1, with
\* the source fields its metadata has, in the order of SOURCE_FIELDS, and its text
format_documents_for_context(documents) ==
    [i \in DOMAIN documents |->
        [number |-> i,
         source_info |-> SelectSeq([k \in DOMAIN SOURCE_FIELDS |->
                                       IF SOURCE_FIELDS[k] \in DOMAIN documents[i].metadata
                                       THEN <<SOURCE_FIELDS[k], documents[i].metadata[SOURCE_FIELDS[k]]>>
                                       ELSE <<>>],
                                   LAMBDA part : part # <<>>),
         text |-> documents[i].text]]

\* the prompt handed to the LLM: the query alone, or the template of lines 99-106
\* filled with the query and the context
raw_prompt(query) == [question |-> query, context |-> None]
rag_prompt(query, context) == [question |-> query, context |-> Some(context)]

\* llm_provider.generate(prompt=..., system_message=...), answering response
Generation(prompt, system_message, response, documents) ==
    [prompt |-> prompt, system_message |-> system_message,
     response |-> response, documents_used |-> documents]

\* An answer whose documents carry only what the context block shows of them.
generate_answer_context_only(documents, query, system_message, response) ==
    IF documents = <<>>
    THEN Generation(raw_prompt(query), default_system(system_message), response, <<>>)
    ELSE Generation(rag_prompt(query, format_documents_for_context(documents)),
                    rag_system(system_message), response,
                    [i \in DOMAIN documents |->
                        [id |-> documents[i].id, text |-> documents[i].text,
                         metadata |-> documents[i].metadata, score |-> 0]])

\* generate_answer, given the documents retrieve_relevant_documents returned
\* and the response of the LLM
generate_answer(documents, query, system_message, response) ==
    IF documents = <<>>
    THEN Generation(raw_prompt(query), default_system(system_message), response, <<>>)
    ELSE Generation(rag_prompt(query, format_documents_for_context(documents)),
                    rag_system(system_message), response, documents)

\* generate_answer_stream: response is the stream generate_stream returned
generate_answer_stream(documents, query, system_message, response) ==
    IF documents = <<>>
    THEN Generation(raw_prompt(query), default_system(system_message), response, <<>>)
    ELSE Generation(rag_prompt(query, format_documents_for_context(documents)),
                    rag_system(system_message), response, documents)

Queries == {Str("q1")}
SystemMessages == {None, Some(""), Some("Answer in one sentence.")}
Responses == {Str("answer1"), Str("answer2")}

\* POST /rag/documents with a document that has a title, or with one that has none
TitledMetadata ==
    {("visibility" :> SHARED) @@ ("title" :> Str("Handbook")), ("visibility" :> PRIVATE)}

AddTitledDocuments ==
    \E p \in Principals, text \in Texts, request_metadata \in TitledMetadata :
        LET organization_id == p[1]
            user_id == p[2]
            vector_db == get_vector_db(_VECTOR_DB_INSTANCES, organization_id)
            metadata == sanitize_metadata_for_storage(request_metadata, organization_id, user_id)
            id == next_uuid + 1
            coll == add_documents(vector_db, collection, id, text, metadata)
        IN  /\ next_uuid < MaxDocs
            /\ _VECTOR_DB_INSTANCES' = instances_after_get_vector_db(_VECTOR_DB_INSTANCES, organization_id)
            /\ next_uuid' = id
            /\ collection' = coll
            /\ origin' = DictSet(origin, id, p)
            /\ last' = Call("add_documents", p) @@ ("document_id" :> id)
                       @@ ("result" :> get_document(vector_db, coll, id))
            /\ UNCHANGED <<_agent_cache, created_agents>>
            /\ UNCHANGED registry_vars

GenerateCall(op, p, query, system_message, response, documents, result) ==
    Call(op, p) @@ ("query" :> query) @@ ("system_message" :> system_message)
    @@ ("response" :> response) @@ ("retrieved" :> documents) @@ ("result" :> result)

GenerateAnswer ==
    \E p \in Principals, query \in Queries, system_message \in SystemMessages,
       num_documents \in Limits, response \in Responses :
        LET vector_db == get_vector_db(_VECTOR_DB_INSTANCES, p[1])
            documents == retrieve_relevant_documents(vector_db, collection, p[1], p[2], None,
                                                     num_documents, TRUE)
        IN  /\ _VECTOR_DB_INSTANCES' = instances_after_get_vector_db(_VECTOR_DB_INSTANCES, p[1])
            /\ last' = GenerateCall("generate_answer", p, query, system_message, response, documents,
                                    generate_answer(documents, query, system_message, response))
            /\ UNCHANGED <<collection, _agent_cache, next_uuid, origin, created_agents>>
            /\ UNCHANGED registry_vars

GenerateAnswerStream ==
    \E p \in Principals, query \in Queries, system_message \in SystemMessages,
       num_documents \in Limits, response \in Responses :
        LET vector_db == get_vector_db(_VECTOR_DB_INSTANCES, p[1])
            documents == retrieve_relevant_documents(vector_db, collection, p[1], p[2], None,
                                                     num_documents, TRUE)
        IN  /\ _VECTOR_DB_INSTANCES' = instances_after_get_vector_db(_VECTOR_DB_INSTANCES, p[1])
            /\ last' = GenerateCall("generate_answer_stream", p, query, system_message, response,
                                    documents,
                                    generate_answer_stream(documents, query, system_message, response))
            /\ UNCHANGED <<collection, _agent_cache, next_uuid, origin, created_agents>>
            /\ UNCHANGED registry_vars

NextGenerate == AddTitledDocuments \/ GenerateAnswer \/ GenerateAnswerStream

SpecGenerate == Init /\ [][NextGenerate]_vars

GenerateOps == {"generate_answer", "generate_answer_stream"}

\* C23: the documents_used list generate_answer and generate_answer_stream
\* return is exactly the list the retriever returned: the same documents in
\* the same order, each with its id, text, metadata and score.
C23_DocumentsUsedAreRetrieved ==
    last["op"] \in GenerateOps =>
        /\ last["result"].documents_used = last["retrieved"]
        /\ \A i \in DOMAIN last["retrieved"] :
              /\ last["result"].documents_used[i].id = last["retrieved"][i].id
              /\ last["result"].documents_used[i].score = last["retrieved"][i].score

\* an answer grounded on two documents, one of them with a title in its context part
C23_Witness ==
    /\ last["op"] = "generate_answer"
    /\ Len(last["retrieved"]) = 2
    /\ last["result"].prompt.context # None
    /\ \E i \in DOMAIN last["result"].prompt.context[1] :
           last["result"].prompt.context[1][i].source_info # <<>>

\* C24 as stated: when the retriever returns no documents, generate_answer
\* returns the LLM's answer with an empty documents_used list, and the LLM is
\* called with the raw query as prompt, without a context block, and with the
\* ungrounded fallback system message.
C24_NoDocumentsUsesFallback ==
    (last["op"] = "generate_answer" /\ last["retrieved"] = <<>>) =>
        /\ last["result"].response = last["response"]
        /\ last["result"].documents_used = <<>>
        /\ last["result"].prompt.question = last["query"]
        /\ last["result"].prompt.context = None
        /\ last["result"].system_message = FALLBACK_SYSTEM_MESSAGE

\* C24 amended: as above, except that the system message is the caller's
\* when the caller supplied a non-empty one, and the fallback otherwise.
C24_NoDocumentsUsesFallbackUnlessGiven ==
    (last["op"] = "generate_answer" /\ last["retrieved"] = <<>>) =>
        /\ last["result"].response = last["response"]
        /\ last["result"].documents_used = <<>>
        /\ last["result"].prompt.question = last["query"]
        /\ last["result"].prompt.context = None
        /\ last["result"].system_message =
              (IF last["system_message"] \in {None, Some("")}
               THEN FALLBACK_SYSTEM_MESSAGE
               ELSE last["system_message"][1])

\* an answer without documents and without a system message of the caller,
\* while the collection holds a document the caller may not read
C24_Witness ==
    /\ last["op"] = "generate_answer"
    /\ last["retrieved"] = <<>>
    /\ collection # <<>>
    /\ last["system_message"] = None
    /\ last["result"].system_message = FALLBACK_SYSTEM_MESSAGE
    /\ last["result"].response = Str("answer2")

(***************************************************************************)
(* services/llm_providers/openai.py, ollama.py: get_embeddings             *)
(***************************************************************************)
MaxTexts == 3

\* openai.py line 207 has batch_size = 100; the model keeps the loop and uses a
\* batch small enough for MaxTexts texts to span several batches
batch_size == 2

EmbeddingTexts == {"ta", "tb", "tc"}

TextLists == UNION {[1..n -> EmbeddingTexts] : n \in 0..MaxTexts}

\* the vector the embedding model computes for a text
embedding(text) == <<"embedding", text>>

Min(a, b) == IF a < b THEN a ELSE b

\* range(0, len(texts), batch_size) and texts[i:i+batch_size]
batch_count(texts) == (Len(texts) + batch_size - 1) \div batch_size

batch_texts(texts, b) ==
    SubSeq(texts, (b - 1) * batch_size + 1, Min(b * batch_size, Len(texts)))

\* response.data of embeddings.create for a batch: one item per input with its
\* index in the batch, in an order the backend chooses
response_data(batch, order) ==
    [k \in DOMAIN batch |-> [index |-> order[k] - 1, embedding |-> embedding(batch[order[k]])]]

BatchResponses(batch) == {response_data(batch, order) : order \in Permutations(DOMAIN batch)}

\* one response per batch of the call
CallResponses(texts) ==
    {responses \in [1..batch_count(texts) -> UNION {BatchResponses(batch_texts(texts, b)) :
                                                        b \in 1..batch_count(texts)}] :
        \A b \in 1..batch_count(texts) : responses[b] \in BatchResponses(batch_texts(texts, b))}

\* The items in the order the backend returned them.
unsorted(data) == data

\* lines 220-223: sorted(response.data, key=lambda x: x.index)
sorted_by_index(data) ==
    [k \in DOMAIN data |->
        data[CHOOSE j \in DOMAIN data :
                 Cardinality({m \in DOMAIN data : data[m].index < data[j].index}) = k - 1]]

\* lines 225-226, for the batches from b on
RECURSIVE extend_embeddings(_, _, _)
extend_embeddings(responses, b, all_embeddings) ==
    IF b > Len(responses)
    THEN all_embeddings
    ELSE LET sorted_embeddings == sorted_by_index(responses[b])
             batch_embeddings == [k \in DOMAIN sorted_embeddings |-> sorted_embeddings[k].embedding]
         IN  extend_embeddings(responses, b + 1, all_embeddings \o batch_embeddings)

\* OpenAIProvider.get_embeddings, given the response of each embeddings.create call
openai_get_embeddings(texts, responses) == extend_embeddings(responses, 1, <<>>)

\* OllamaProvider.get_embeddings: one request per text, response.get("embedding", [])
RECURSIVE ollama_get_embeddings(_, _)
ollama_get_embeddings(texts, embeddings) ==
    IF texts = <<>>
    THEN embeddings
    ELSE LET response == ("embedding" :> embedding(Head(texts)))
         IN  ollama_get_embeddings(Tail(texts), Append(embeddings, DictGet(response, "embedding", <<>>)))

OpenAIGetEmbeddings ==
    \E texts \in TextLists :
        \E responses \in CallResponses(texts) :
            /\ last' = ("op" :> "openai.get_embeddings") @@ ("texts" :> texts)
                       @@ ("responses" :> responses)
                       @@ ("result" :> openai_get_embeddings(texts, responses))
            /\ UNCHANGED <<collection, _VECTOR_DB_INSTANCES, _agent_cache, next_uuid, origin,
                           created_agents>>
            /\ UNCHANGED registry_vars

OllamaGetEmbeddings ==
    \E texts \in TextLists :
        /\ last' = ("op" :> "ollama.get_embeddings") @@ ("texts" :> texts)
                   @@ ("responses" :> <<>>)
                   @@ ("result" :> ollama_get_embeddings(texts, <<>>))
        /\ UNCHANGED <<collection, _VECTOR_DB_INSTANCES, _agent_cache, next_uuid, origin,
                       created_agents>>
        /\ UNCHANGED registry_vars

NextEmbeddings == OpenAIGetEmbeddings \/ OllamaGetEmbeddings

SpecEmbeddings == Init /\ [][NextEmbeddings]_vars

\* C25: get_embeddings(texts) returns a list as long as texts whose element i
\* is the embedding of texts[i], for every input length, also across several
\* batches, and for every order in which the backend returns a batch's items.
C25_EmbeddingsAlignWithTexts ==
    last["op"] \in {"openai.get_embeddings", "ollama.get_embeddings"} =>
        /\ Len(last["result"]) = Len(last["texts"])
        /\ \A i \in DOMAIN last["texts"] : last["result"][i] = embedding(last["texts"][i])

\* a call spanning two batches whose first response is not in input order
C25_Witness ==
    /\ last["op"] = "openai.get_embeddings"
    /\ Len(last["texts"]) > batch_size
    /\ Len(last["responses"]) = 2
    /\ last["responses"][1][1].index > last["responses"][1][2].index
    /\ last["texts"][1] # last["texts"][2]
    /\ Len(last["result"]) = Len(last["texts"])

(***************************************************************************)
(* services/llm_providers/ollama.py: _stream_request, generate_stream,     *)
(* chat_stream.  The response body is a sequence of symbols: the JSON text *)
(* of a fragment is the two symbols <<"{", f>>, <<"}", f>>, and <<"\n", "">> *)
(* is the line terminator.  The transport delivers the body in chunks.     *)
(***************************************************************************)
MaxFragments == 2

Fragments == {"Hel", "lo"}

NEWLINE == <<"\n", "">>

\* the object the backend sends for a content fragment
stream_object(endpoint, fragment) ==
    IF endpoint = "generate"
    THEN ("response" :> fragment)
    ELSE ("message" :> ("content" :> fragment))

\* the body for the fragments the backend emits, the last line terminated or not
RECURSIVE response_body(_, _)
response_body(emitted, terminated) ==
    IF emitted = <<>>
    THEN <<>>
    ELSE <<<<"{", Head(emitted)>>, <<"}", Head(emitted)>>>>
         \o (IF Len(emitted) > 1 \/ terminated THEN <<NEWLINE>> ELSE <<>>)
         \o response_body(Tail(emitted), terminated)

\* buffer.split("\n"): the pieces between the terminators, the last possibly empty
RECURSIVE split_lines(_, _)
split_lines(buffer, current) ==
    IF buffer = <<>>
    THEN <<current>>
    ELSE IF Head(buffer) = NEWLINE
         THEN <<current>> \o split_lines(Tail(buffer), <<>>)
         ELSE split_lines(Tail(buffer), Append(current, Head(buffer)))

\* json.loads(line) for a line of the given endpoint: Some(object), or None for
\* a JSONDecodeError
parse_line(endpoint, line) ==
    IF Len(line) = 2 /\ line[1][1] = "{" /\ line[2][1] = "}" /\ line[1][2] = line[2][2]
    THEN Some(stream_object(endpoint, line[1][2]))
    ELSE None

\* generate_stream lines 186-188, chat_stream lines 305-307: what is yielded for
\* an object of _stream_request
yielded_for(endpoint, object) ==
    IF endpoint = "generate"
    THEN IF "response" \in DOMAIN object THEN <<object["response"]>> ELSE <<>>
    ELSE IF "message" \in DOMAIN object /\ "content" \in DOMAIN object["message"]
         THEN <<object["message"]["content"]>>
         ELSE <<>>

\* lines 105-112: the fragments yielded for the complete lines
RECURSIVE process_lines(_, _)
process_lines(endpoint, lines) ==
    IF lines = <<>>
    THEN <<>>
    ELSE (IF Head(lines) # <<>> /\ parse_line(endpoint, Head(lines)) # None
          THEN yielded_for(endpoint, parse_line(endpoint, Head(lines))[1])
          ELSE <<>>)
         \o process_lines(endpoint, Tail(lines))

\* lines 96-112: one iteration of the loop over response.content
receive_chunk(endpoint, buffer, chunk) ==
    LET lines == split_lines(buffer \o chunk, <<>>) IN
    [buffer |-> lines[Len(lines)],
     yielded |-> process_lines(endpoint, SubSeq(lines, 1, Len(lines) - 1))]

EmittedSequences == UNION {[1..n -> Fragments] : n \in 1..MaxFragments}

Streaming == last["op"] = "ollama.stream" /\ ~last["done"]

\* generate_stream / chat_stream is called and the backend starts to answer
OllamaStreamStart ==
    \E endpoint \in {"generate", "chat"}, emitted \in EmittedSequences, terminated \in BOOLEAN :
        /\ ~Streaming
        /\ last' = ("op" :> "ollama.stream") @@ ("endpoint" :> endpoint)
                   @@ ("emitted" :> emitted) @@ ("terminated" :> terminated)
                   @@ ("content" :> response_body(emitted, terminated))
                   @@ ("buffer" :> <<>>) @@ ("yielded" :> <<>>) @@ ("done" :> FALSE)
        /\ UNCHANGED <<collection, _VECTOR_DB_INSTANCES, _agent_cache, next_uuid, origin,
                       created_agents>>
        /\ UNCHANGED registry_vars

\* the transport delivers the next chunk of the body
OllamaStreamChunk ==
    /\ Streaming
    /\ last["content"] # <<>>
    /\ \E size \in 1..Len(last["content"]) :
           LET chunk == SubSeq(last["content"], 1, size)
               r == receive_chunk(last["endpoint"], last["buffer"], chunk)
           IN  last' = [last EXCEPT !["content"] = SubSeq(last["content"], size + 1,
                                                          Len(last["content"])),
                                    !["buffer"] = r.buffer,
                                    !["yielded"] = last["yielded"] \o r.yielded]
    /\ UNCHANGED <<collection, _VECTOR_DB_INSTANCES, _agent_cache, next_uuid, origin,
                   created_agents>>
    /\ UNCHANGED registry_vars

\* the body is exhausted: the loop over response.content ends and the generator returns
OllamaStreamEnd ==
    /\ Streaming
    /\ last["content"] = <<>>
    /\ last' = [last EXCEPT !["done"] = TRUE]
    /\ UNCHANGED <<collection, _VECTOR_DB_INSTANCES, _agent_cache, next_uuid, origin,
                   created_agents>>
    /\ UNCHANGED registry_vars

NextStream == OllamaStreamStart \/ OllamaStreamChunk \/ OllamaStreamEnd

SpecStream == Init /\ [][NextStream]_vars

\* C26: when generate_stream / chat_stream has finished, the fragments it
\* yielded are the content fragments the backend emitted, in the same order,
\* none dropped, duplicated or reordered, however the transport split the
\* response into chunks and whether or not the last line was terminated.
C26_YieldedEqualsEmitted ==
    (last["op"] = "ollama.stream" /\ last["done"]) => last["yielded"] = last["emitted"]

\* C27: add_documents([t], [e], [m]) followed by get_document(id) from the
\* same organization returns the text t and metadata that contains every
\* entry of m, plus the injected security fields.
C27_AddThenGetRoundTrip ==
    last["op"] = "add_documents" =>
        /\ last["result"] # None
        /\ last["result"][1].text = last["text"]
        /\ \A key \in DOMAIN last["metadata"] :
              /\ key \in DOMAIN last["result"][1].metadata
              /\ last["result"][1].metadata[key] = last["metadata"][key]
        /\ last["result"][1].metadata["organization_id"] = last["organization_id"]

(***************************************************************************)
(* Pagination of list_documents: chroma.py and qdrant.py                   *)
(***************************************************************************)
\* qdrant-client scroll(scroll_filter, limit, offset): at most limit matching
\* points, starting from the point whose id is offset.  offset is a point id,
\* not a number of points to skip; the stored points have the uuid ids
\* add_documents generated, and an integer offset is a numeric id that orders
\* before all of them, so the scroll starts at the first matching point.
qdrant_scroll(coll, where, limit, offset) == Take(collection_where(coll, where), limit)

\* QdrantProvider.list_documents, lines 447-489: limit and offset go to scroll
qdrant_list_documents(self, coll, filter_dict, limit, offset) ==
    LET points == qdrant_scroll(coll, scoped_where(self, filter_dict), limit, offset) IN
    [i \in DOMAIN points |->
        [id |-> points[i].id, text |-> points[i].text, metadata |-> points[i].metadata]]

ListingFilters == {EmptyDict, ("visibility" :> Eq(SHARED))}

ListCall(op, self, filter_dict, limit, offset, result) ==
    ("op" :> op) @@ ("organization_id" :> self.organization_id)
    @@ ("where" :> scoped_where(self, filter_dict))
    @@ ("limit" :> limit) @@ ("offset" :> offset) @@ ("result" :> result)

\* list_documents on the instance get_vector_db returns under the default configuration
ChromaListDocuments ==
    \E organization_id \in Orgs, filter_dict \in ListingFilters, limit \in Limits, offset \in Offsets :
        LET vector_db == get_vector_db(_VECTOR_DB_INSTANCES, organization_id) IN
        /\ _VECTOR_DB_INSTANCES' = instances_after_get_vector_db(_VECTOR_DB_INSTANCES, organization_id)
        /\ last' = ListCall("chroma.list_documents", vector_db, filter_dict, limit, offset,
                            list_documents(vector_db, collection, filter_dict, limit, offset))
        /\ UNCHANGED <<collection, _agent_cache, next_uuid, origin, created_agents>>
        /\ UNCHANGED registry_vars

\* list_documents on a Qdrant provider of the organization holding the same documents
QdrantListDocuments ==
    \E organization_id \in Orgs, filter_dict \in ListingFilters, limit \in Limits, offset \in Offsets :
        LET vector_db == QdrantProvider(organization_id, get_company_config(organization_id),
                                        SHARED_VECTOR_DB)
        IN  /\ last' = ListCall("qdrant.list_documents", vector_db, filter_dict, limit, offset,
                                qdrant_list_documents(vector_db, collection, filter_dict, limit,
                                                      offset))
            /\ UNCHANGED <<collection, _VECTOR_DB_INSTANCES, _agent_cache, next_uuid, origin,
                           created_agents>>
            /\ UNCHANGED registry_vars

NextListing == AddDocuments \/ ChromaListDocuments \/ QdrantListDocuments

SpecListing == Init /\ [][NextListing]_vars

\* positions offset .. offset+limit-1 (counted from 0) of a sequence
page(documents, limit, offset) ==
    SubSeq(documents, offset + 1, Min(offset + limit, Len(documents)))

\* C28: list_documents(filter, limit, offset) returns exactly the elements at
\* positions offset .. offset+limit-1 of the sequence of documents matching
\* the filter: fewer when the sequence is shorter, none when offset is past
\* its end.
C28_ListReturnsThePage ==
    last["op"] \in {"chroma.list_documents", "qdrant.list_documents"} =>
        ids_of(last["result"])
            = ids_of(page(collection_where(collection, last["where"]), last["limit"], last["offset"]))

(***************************************************************************)
(* Calls of sanitize_metadata_for_storage on raw request metadata          *)
(***************************************************************************)
OptionalEntries(key, values) == {EmptyDict} \cup {(key :> v) : v \in values}

\* metadata as a client can send it: any visibility string, forged security
\* fields, other fields
RawMetadata ==
    {v @@ o @@ u @@ s :
        v \in OptionalEntries("visibility", {PRIVATE, SHARED, PUBLIC, "secret"}),
        o \in OptionalEntries("organization_id", {"org2"}),
        u \in OptionalEntries("user_id", {"mallory"}),
        s \in OptionalEntries("source", {"wiki"})}

\* the call, with the caller's mapping as it is afterwards: line 153 works on
\* a copy, dict(metadata), so the mapping passed in keeps its entries
sanitize_call(metadata, organization_id, user_id) ==
    [metadata |-> metadata,
     result |-> sanitize_metadata_for_storage(metadata, organization_id, user_id)]

SanitizeMetadata ==
    \E p \in Principals, metadata \in RawMetadata :
        LET r == sanitize_call(metadata, p[1], p[2]) IN
        /\ last' = Call("sanitize_metadata_for_storage", p) @@ ("metadata" :> metadata)
                   @@ ("metadata_after" :> r.metadata) @@ ("result" :> r.result)
        /\ UNCHANGED <<collection, _VECTOR_DB_INSTANCES, _agent_cache, next_uuid, origin,
                       created_agents>>
        /\ UNCHANGED registry_vars

NextSanitize == SanitizeMetadata

SpecSanitize == Init /\ [][NextSanitize]_vars

\* C29: sanitize_metadata_for_storage returns metadata whose organization_id
\* and user_id are the caller's, whatever the input carried, and whose
\* visibility is private, shared or public: a valid visibility is kept, a
\* missing or invalid one becomes private; other entries are kept and the
\* input mapping is not modified.
C29_SanitizedMetadata ==
    last["op"] = "sanitize_metadata_for_storage" =>
        LET metadata == last["metadata"]
            result == last["result"]
        IN  /\ result["organization_id"] = last["organization_id"]
            /\ result["user_id"] = last["user_id"]
            /\ result["visibility"] \in {"private", "shared", "public"}
            /\ result["visibility"] =
                  (IF "visibility" \in DOMAIN metadata
                      /\ metadata["visibility"] \in {"private", "shared", "public"}
                   THEN metadata["visibility"]
                   ELSE "private")
            /\ \A key \in (DOMAIN metadata) \ {"organization_id", "user_id", "visibility"} :
                  key \in DOMAIN result /\ result[key] = metadata[key]
            /\ last["metadata_after"] = metadata

\* a request with an invalid visibility and forged security fields
C29_Witness ==
    /\ last["op"] = "sanitize_metadata_for_storage"
    /\ last["organization_id"] = "org1"
    /\ "visibility" \in DOMAIN last["metadata"]
    /\ last["metadata"]["visibility"] = "secret"
    /\ "organization_id" \in DOMAIN last["metadata"]
    /\ last["metadata"]["organization_id"] = "org2"
    /\ "user_id" \in DOMAIN last["metadata"]
    /\ last["result"]["visibility"] = "private"
    /\ last["result"]["organization_id"] = "org1"

(***************************************************************************)
(* services/rag/retriever.py: delete_document                              *)
(***************************************************************************)
\* A deletion that checks the organization of the document only.
delete_document_any_user(vector_db, coll, document_id, organization_id, user_id) ==
    LET document == get_document(vector_db, coll, document_id) IN
    IF document = None
    THEN [result |-> FALSE, collection |-> coll]
    ELSE IF DictGet(document[1].metadata, "organization_id", "") # organization_id
         THEN [result |-> FALSE, collection |-> coll]
         ELSE delete_documents(vector_db, coll, <<document_id>>)

\* delete_document, given the instance get_vector_db returned: [result, collection]
delete_document(vector_db, coll, document_id, organization_id, user_id) ==
    LET document == get_document(vector_db, coll, document_id) IN
    IF document = None
    THEN [result |-> FALSE, collection |-> coll]
    ELSE LET doc_org_id == DictGet(document[1].metadata, "organization_id", "")
             doc_user_id == DictGet(document[1].metadata, "user_id", "")
             is_admin == FALSE
         IN  IF doc_org_id # organization_id
             THEN [result |-> FALSE, collection |-> coll]
             ELSE IF doc_user_id # user_id /\ ~is_admin
                  THEN [result |-> FALSE, collection |-> coll]
                  ELSE delete_documents(vector_db, coll, <<document_id>>)

DeleteDocument ==
    \E p \in Principals, document_id \in DocumentIds :
        LET vector_db == get_vector_db(_VECTOR_DB_INSTANCES, p[1])
            r == delete_document(vector_db, collection, document_id, p[1], p[2])
        IN  /\ _VECTOR_DB_INSTANCES' = instances_after_get_vector_db(_VECTOR_DB_INSTANCES, p[1])
            /\ collection' = r.collection
            /\ last' = Call("delete_document", p) @@ ("document_id" :> document_id)
                       @@ ("before" :> collection) @@ ("result" :> r.result)
            /\ UNCHANGED <<_agent_cache, next_uuid, origin, created_agents>>
            /\ UNCHANGED registry_vars

NextDelete == AddDocuments \/ DeleteDocument \/ ClearVectorDbCache

SpecDelete == Init /\ [][NextDelete]_vars

\* the stored document exists and carries the caller's organization and user
own_document(coll, document_id, organization_id, user_id) ==
    \E i \in DOMAIN coll :
        /\ coll[i].id = document_id
        /\ "organization_id" \in DOMAIN coll[i].metadata
        /\ coll[i].metadata["organization_id"] = organization_id
        /\ "user_id" \in DOMAIN coll[i].metadata
        /\ coll[i].metadata["user_id"] = user_id

\* C30: delete_document removes the document only when it exists and its
\* organization_id and user_id are the caller's; in every other case it
\* returns false and the stored documents are unchanged.  What it removes is
\* that document and nothing else.
C30_DeleteOnlyOwnDocument ==
    last["op"] = "delete_document" =>
        LET own == own_document(last["before"], last["document_id"], last["organization_id"],
                                last["user_id"])
        IN  /\ ~own => (last["result"] = FALSE /\ collection = last["before"])
            /\ last["result"] = FALSE => collection = last["before"]
            /\ last["result"] = TRUE =>
                  collection = SelectSeq(last["before"], LAMBDA d : d.id # last["document_id"])
            /\ collection # last["before"] => own

\* bob asks to delete a document of alice of his organization, and it stays
C30_Witness ==
    /\ last["op"] = "delete_document"
    /\ last["user_id"] = "bob"
    /\ \E i \in DOMAIN last["before"] :
           /\ last["before"][i].id = last["document_id"]
           /\ last["before"][i].metadata["organization_id"] = "org1"
           /\ last["before"][i].metadata["user_id"] = "alice"
    /\ last["result"] = FALSE
    /\ collection = last["before"]

(***************************************************************************)
(* The documents an agent instance retrieves                               *)
(***************************************************************************)
\* the document_filter in the stored agent_metadata document of the agent
stored_document_filter(coll, agent_id) ==
    LET ids == metadata_documents(coll, agent_id) IN
    IF ids = {}
    THEN EmptyDict
    ELSE LET agent_metadata == json_loads(stored(coll, CHOOSE id \in ids : TRUE).text) IN
         DictGet(agent_metadata, "document_filter", EmptyDict)

\* the keys of a document_filter that do not name a constraint of the agent's
\* own filter (organization, the visibility alternative, associated_agents)
narrowing(document_filter) ==
    [k \in (DOMAIN document_filter) \ {"organization_id", "$or", "associated_agents"}
        |-> document_filter[k]]

\* C31: every document an agent instance retrieves lists the agent's id in
\* associated_agents, belongs to the instance's organization, satisfies the
\* visibility rule of the instance's user and satisfies the narrowing keys of
\* the document_filter stored for the agent.
C31_AgentRetrievesOnlyItsDocuments ==
    (last["op"] = "chat_with_agent" /\ last["result"] # None) =>
        LET agent == last["result"][1].agent
            docs == last["result"][1].docs
        IN  \A i \in DOMAIN docs :
                /\ "associated_agents" \in DOMAIN docs[i].metadata
                /\ InList(agent.agent_id, docs[i].metadata["associated_agents"])
                /\ Matches(get_access_filters(agent.organization_id, agent.user_id, None, EmptyDict),
                           docs[i].metadata)
                /\ Matches(narrowing(stored_document_filter(collection, agent.agent_id)),
                           docs[i].metadata)

(***************************************************************************)
(* Agents are created, modified and deleted in a collection where an       *)
(* agent of an earlier request is already associated with documents 1 and  *)
(* 3 of org1.                                                              *)
(***************************************************************************)
\* the uuid create_agent drew for the earlier agent
EARLIER_AGENT == Len(Corpus) + 1

AssociatedCorpus ==
    create_agent(ChromaDBProvider("org1", get_company_config("org1"), TRUE), Corpus,
                 EARLIER_AGENT, EARLIER_AGENT + 1, "org1", "bob", "n0", "i0", "d0",
                 Some(<<1, 3>>), None, None)

InitAssociated ==
    /\ collection = AssociatedCorpus
    /\ _VECTOR_DB_INSTANCES = EmptyDict
    /\ _agent_cache = EmptyDict
    /\ next_uuid = Len(AssociatedCorpus)
    /\ origin = [i \in 1..Len(AssociatedCorpus) |->
                    <<AssociatedCorpus[i].metadata["organization_id"],
                      AssociatedCorpus[i].metadata["user_id"]>>]
    /\ created_agents = EmptyDict
    /\ last = ("op" :> "init")
    /\ DefaultRegistries

NextReplacement ==
    \/ CreateAgent
    \/ UpdateAgent
    \/ DeleteAgent

SpecReplacement == InitAssociated /\ [][NextReplacement]_vars

\* a stored record that is not an agent_metadata document
knowledge_document(doc) ==
    ~("document_type" \in DOMAIN doc.metadata /\ doc.metadata["document_type"] = "agent_metadata")

\* the agents a record lists, the given agent left out
other_agents(metadata, agent_id) ==
    IF "associated_agents" \in DOMAIN metadata
    THEN SelectSeq(metadata["associated_agents"], LAMBDA a : a # agent_id)
    ELSE <<>>

\* the metadata of a record without its associated_agents
other_metadata(metadata) == [k \in (DOMAIN metadata) \ {"associated_agents"} |-> metadata[k]]

\* C32: delete_agent(A) and update_agent(A) keep every knowledge document,
\* with its text, its metadata other than associated_agents and the other
\* agents its associated_agents lists.
C32_KnowledgeDocumentsKept ==
    [][ last'["op"] \in {"delete_agent", "update_agent"} =>
            \A i \in DOMAIN collection :
                knowledge_document(collection[i]) =>
                    /\ collection[i].id \in collection_ids(collection')
                    /\ LET after == stored(collection', collection[i].id) IN
                       /\ after.text = collection[i].text
                       /\ other_metadata(after.metadata) = other_metadata(collection[i].metadata)
                       /\ other_agents(after.metadata, last'["agent_id"])
                            = other_agents(collection[i].metadata, last'["agent_id"]) ]_vars

\* update_agent replaced the associations of an agent: document 3 lists the
\* earlier agent and the updated one, document 1 the earlier agent only
C32_Witness ==
    /\ last["op"] = "update_agent"
    /\ last["result"] # None
    /\ last["document_ids"] # None
    /\ stored(collection, 3).metadata["associated_agents"] = <<EARLIER_AGENT, last["agent_id"]>>
    /\ stored(collection, 1).metadata["associated_agents"] = <<EARLIER_AGENT>>

(***************************************************************************)
(* Concurrent resolves.  A request that calls get_llm_provider or          *)
(* get_vector_db runs the lookup (llm 49-56, vector 55-63), the            *)
(* constructor call (llm 58-70, vector 65-74) and the caching statement    *)
(* (llm 73, vector 77) as three steps; steps of different requests         *)
(* interleave in every order.                                              *)
(***************************************************************************)
MaxRequests == 3    \* requests served in one behaviour

ResolveNames == {"get_llm_provider", "get_vector_db"}

\* the module-level cache a resolve reads and writes
instance_cache(op) ==
    IF op = "get_llm_provider" THEN _PROVIDER_INSTANCES ELSE _VECTOR_DB_INSTANCES

resolve_cache_key(op, s, organization_id) ==
    IF op = "get_llm_provider"
    THEN llm_cache_key(s, organization_id)
    ELSE vector_db_cache_key(s, organization_id)

\* the constructor call of a resolve that missed the cache
resolve_construct(op, s, object, organization_id) ==
    IF op = "get_llm_provider"
    THEN construct_llm_provider(llm_provider_class(s, _PROVIDER_REGISTRY, organization_id), object,
                                organization_id, company_config_of(s, organization_id), s)
    ELSE LET company_config == company_config_of(s, organization_id)
             vector_db_name == DictGet(company_config, "vector_db", DEFAULT_VECTOR_DB)
         IN  construct_vector_db(IF vector_db_name \notin DOMAIN _VECTOR_DB_REGISTRY
                                 THEN _VECTOR_DB_REGISTRY[DEFAULT_VECTOR_DB]
                                 ELSE _VECTOR_DB_REGISTRY[vector_db_name],
                                 object, organization_id, company_config,
                                 DictGet(company_config, "shared_vector_db", SHARED_VECTOR_DB))

\* the requests that resolve the same key of the same cache
same_key(op, cache_key) ==
    {id \in DOMAIN requests : requests[id].op = op /\ requests[id].cache_key = cache_key}

\* every resolve of the key that was started has returned, one of them with an instance
race_over(op, cache_key) ==
    /\ \A id \in same_key(op, cache_key) : requests[id].pc = "done"
    /\ \E id \in same_key(op, cache_key) : ~requests[id].outcome[1].raised

InitRace ==
    /\ collection = <<>>
    /\ _VECTOR_DB_INSTANCES = EmptyDict
    /\ _agent_cache = EmptyDict
    /\ next_uuid = 0
    /\ origin = EmptyDict
    /\ created_agents = EmptyDict
    /\ last = ("op" :> "init")
    /\ settings \in { [DefaultSettings EXCEPT !.OPENAI_API_KEY = k] : k \in {None, Some("sk-env")} }
    /\ _VECTOR_DB_REGISTRY = ("chroma" :> "ChromaDBProvider") @@ ("qdrant" :> "QdrantProvider")
    /\ _PROVIDER_REGISTRY = ("openai" :> "OpenAIProvider") @@ ("ollama" :> "OllamaProvider")
    /\ _PROVIDER_INSTANCES = EmptyDict
    /\ _SEARCH_PROVIDER_REGISTRY = ("serpapi" :> "SerpAPIProvider")
    /\ _SEARCH_PROVIDER_INSTANCES = EmptyDict
    /\ next_object = 0
    /\ handed_out = [llm |-> EmptyDict, vector |-> EmptyDict, search |-> EmptyDict]
    /\ requests = EmptyDict

\* a request enters the resolve: the cache key and the lookup
ResolveLookup ==
    \E op \in ResolveNames, organization_id \in Orgs :
        LET id == Cardinality(DOMAIN requests) + 1
            cache_key == resolve_cache_key(op, settings, organization_id)
            hit == cached(instance_cache(op), cache_key)
        IN  /\ id <= MaxRequests
            /\ requests' = DictSet(requests, id,
                   [op |-> op, organization_id |-> organization_id, cache_key |-> cache_key,
                    afterwards |-> race_over(op, cache_key),
                    pc |-> IF hit THEN "done" ELSE "construct",
                    outcome |-> IF hit THEN Some(Returned(instance_cache(op)[cache_key])) ELSE None])
            /\ last' = ("op" :> "resolve.lookup") @@ ("request" :> id)
            /\ UNCHANGED <<settings, _VECTOR_DB_REGISTRY, _PROVIDER_REGISTRY, _PROVIDER_INSTANCES,
                           _SEARCH_PROVIDER_REGISTRY, _SEARCH_PROVIDER_INSTANCES, next_object,
                           handed_out, _VECTOR_DB_INSTANCES>>
            /\ UNCHANGED store_vars

\* the constructor call; an exception ends the request
ResolveConstruct ==
    \E id \in DOMAIN requests :
        LET r == requests[id]
            built == resolve_construct(r.op, settings, next_object, r.organization_id)
        IN  /\ r.pc = "construct"
            /\ requests' = [requests EXCEPT ![id].pc = IF built.raised THEN "done" ELSE "store",
                                            ![id].outcome = Some(built)]
            /\ next_object' = IF built.raised THEN next_object ELSE next_object + 1
            /\ last' = ("op" :> "resolve.construct") @@ ("request" :> id)
            /\ UNCHANGED <<settings, _VECTOR_DB_REGISTRY, _PROVIDER_REGISTRY, _PROVIDER_INSTANCES,
                           _SEARCH_PROVIDER_REGISTRY, _SEARCH_PROVIDER_INSTANCES,
                           handed_out, _VECTOR_DB_INSTANCES>>
            /\ UNCHANGED store_vars

\* the caching statement and the return of the constructed instance
ResolveStore ==
    \E id \in DOMAIN requests :
        LET r == requests[id]
            instances == after_construction(instance_cache(r.op), r.cache_key, r.outcome[1])
        IN  /\ r.pc = "store"
            /\ requests' = [requests EXCEPT ![id].pc = "done"]
            /\ _PROVIDER_INSTANCES' = IF r.op = "get_llm_provider" THEN instances ELSE _PROVIDER_INSTANCES
            /\ _VECTOR_DB_INSTANCES' = IF r.op = "get_vector_db" THEN instances ELSE _VECTOR_DB_INSTANCES
            /\ last' = ("op" :> "resolve.store") @@ ("request" :> id)
            /\ UNCHANGED <<settings, _VECTOR_DB_REGISTRY, _PROVIDER_REGISTRY,
                           _SEARCH_PROVIDER_REGISTRY, _SEARCH_PROVIDER_INSTANCES, next_object,
                           handed_out>>
            /\ UNCHANGED store_vars

NextRace == ResolveLookup \/ ResolveConstruct \/ ResolveStore

SpecRace == InitRace /\ [][NextRace]_vars

\* C33: once every started resolve of a key has returned, the cache holds
\* under the key one of the instances the resolves constructed, and every
\* resolve of the key that starts from then on returns the cached instance.
C33_RaceConvergesToOneInstance ==
    \A id \in DOMAIN requests :
        LET r == requests[id]
            instances == instance_cache(r.op)
        IN  /\ race_over(r.op, r.cache_key) =>
                /\ r.cache_key \in DOMAIN instances
                /\ \E other \in same_key(r.op, r.cache_key) :
                       requests[other].outcome[1] = Returned(instances[r.cache_key])
            /\ (r.afterwards /\ r.pc = "done") =>
                /\ r.cache_key \in DOMAIN instances
                /\ r.outcome[1] = Returned(instances[r.cache_key])

\* two resolves of one key both missed the cache and constructed an instance
\* each, and a third one that started after both had returned got the cached one
C33_Witness ==
    \E a, b, c \in DOMAIN requests :
        /\ a # b
        /\ requests[a].op = requests[b].op /\ requests[a].cache_key = requests[b].cache_key
        /\ requests[c].op = requests[a].op /\ requests[c].cache_key = requests[a].cache_key
        /\ requests[a].pc = "done" /\ requests[b].pc = "done" /\ requests[c].pc = "done"
        /\ ~requests[a].outcome[1].raised /\ ~requests[b].outcome[1].raised
        /\ requests[a].outcome[1] # requests[b].outcome[1]
        /\ requests[c].afterwards
        /\ requests[c].outcome[1] = Returned(instance_cache(requests[c].op)[requests[c].cache_key])

(***************************************************************************)
(* delete_documents with a list of ids on the shared collection            *)
(***************************************************************************)
\* services/vector_databases/qdrant.py, delete_documents lines 241-285:
\* client.retrieve returns the points that exist; [result, collection]
qdrant_delete_documents(self, coll, document_ids) ==
    IF self.shared
    THEN LET points == collection_get(coll, document_ids)
             filtered_ids == {points[i].id : i \in {j \in DOMAIN points :
                                 /\ "organization_id" \in DOMAIN points[j].metadata
                                 /\ points[j].metadata["organization_id"] = self.organization_id}}
         IN  [result |-> TRUE, collection |-> SelectSeq(coll, LAMBDA d : d.id \notin filtered_ids)]
    ELSE [result |-> TRUE, collection |-> collection_delete(coll, document_ids)]

\* the ids a request lists: a document of org1, a document of org2 and an id
\* that does not exist, in every order and without repetition
ListedIds == {MISSING_ID, 1, 4}

IdLists ==
    {ids \in UNION {[1..n -> ListedIds] : n \in 1..Cardinality(ListedIds)} :
        \A i, j \in DOMAIN ids : ids[i] = ids[j] => i = j}

DeleteCall(op, self, document_ids, before, r) ==
    ("op" :> op) @@ ("organization_id" :> self.organization_id)
    @@ ("document_ids" :> document_ids) @@ ("before" :> before) @@ ("result" :> r.result)

\* delete_documents on the instance get_vector_db returns under the default configuration
ChromaDeleteDocuments ==
    \E organization_id \in Orgs, document_ids \in IdLists :
        LET vector_db == get_vector_db(_VECTOR_DB_INSTANCES, organization_id)
            r == delete_documents(vector_db, collection, document_ids)
        IN  /\ _VECTOR_DB_INSTANCES' = instances_after_get_vector_db(_VECTOR_DB_INSTANCES, organization_id)
            /\ collection' = r.collection
            /\ last' = DeleteCall("chroma.delete_documents", vector_db, document_ids, collection, r)
            /\ UNCHANGED <<_agent_cache, next_uuid, origin, created_agents>>
            /\ UNCHANGED registry_vars

\* delete_documents on a Qdrant provider of the organization holding the same documents
QdrantDeleteDocuments ==
    \E organization_id \in Orgs, document_ids \in IdLists :
        LET vector_db == QdrantProvider(organization_id, get_company_config(organization_id),
                                        SHARED_VECTOR_DB)
            r == qdrant_delete_documents(vector_db, collection, document_ids)
        IN  /\ collection' = r.collection
            /\ last' = DeleteCall("qdrant.delete_documents", vector_db, document_ids, collection, r)
            /\ UNCHANGED <<_VECTOR_DB_INSTANCES, _agent_cache, next_uuid, origin, created_agents>>
            /\ UNCHANGED registry_vars

NextBulkDelete == ChromaDeleteDocuments \/ QdrantDeleteDocuments \/ ClearVectorDbCache

SpecBulkDelete == InitAgents /\ [][NextBulkDelete]_vars

\* the listed documents that the instance's organization owns
own_listed(before, document_ids, organization_id) ==
    {id \in Range(document_ids) :
        /\ id \in collection_ids(before)
        /\ stored(before, id).metadata["organization_id"] = organization_id}

\* C34: delete_documents(ids) on a shared collection removes exactly the
\* listed documents whose stored organization_id is the instance's and
\* leaves every other document as it was.
C34_DeletesExactlyOwnListed ==
    last["op"] \in {"chroma.delete_documents", "qdrant.delete_documents"} =>
        collection = SelectSeq(last["before"],
                               LAMBDA d : d.id \notin own_listed(last["before"], last["document_ids"],
                                                                 last["organization_id"]))

(***************************************************************************)
(* Concurrent agent requests.  The vector database calls of create_agent,  *)
(* update_agent and delete_agent are the suspension points of a request:   *)
(* each call is one step, and the steps of different requests interleave   *)
(* in every order.  The requests are made by users of org1; agent          *)
(* EARLIER_AGENT of bob exists and is associated with document 1.          *)
(***************************************************************************)
InterleavedCorpus ==
    create_agent(ChromaDBProvider("org1", get_company_config("org1"), TRUE), Corpus,
                 EARLIER_AGENT, EARLIER_AGENT + 1, "org1", "bob", "n0", "i0", "d0",
                 Some(<<1>>), None, None)

InitInterleaving ==
    /\ collection = InterleavedCorpus
    /\ _VECTOR_DB_INSTANCES = EmptyDict
    /\ _agent_cache = EmptyDict
    /\ next_uuid = Len(InterleavedCorpus)
    /\ origin = [i \in 1..Len(InterleavedCorpus) |->
                    <<InterleavedCorpus[i].metadata["organization_id"],
                      InterleavedCorpus[i].metadata["user_id"]>>]
    /\ created_agents = (EARLIER_AGENT :> [organization_id |-> "org1", created_by |-> "bob",
                                           document_id |-> EARLIER_AGENT + 1, deleted |-> FALSE])
    /\ last = ("op" :> "init")
    /\ DefaultRegistries

\* the calls that arrive: <<operation, user, agent_id, document_ids>>
InterleavedCalls ==
    { <<"delete_agent", "bob", EARLIER_AGENT, <<>>>>,
      <<"update_agent", "bob", EARLIER_AGENT, <<3>>>>,
      <<"create_agent", "alice", MISSING_ID, <<3>>>> }

\* create_agent lines 127-143, update_agent lines 684-700: the metadata of the
\* fetched document with the agent added, written back
write_association(vector_db, coll, agent_id, doc) ==
    LET md == doc.metadata
        updated_metadata ==
            IF "associated_agents" \notin DOMAIN md
            THEN DictSet(md, "associated_agents", <<agent_id>>)
            ELSE IF ~InList(agent_id, md["associated_agents"])
                 THEN DictSet(md, "associated_agents", Append(md["associated_agents"], agent_id))
                 ELSE md
    IN  update_document(vector_db, coll, doc.id, None, Some(updated_metadata)).collection

\* the request moves on: its position and the locals that change
Moved(id, pc, docs, pending, fetched) ==
    [requests EXCEPT ![id].pc = pc, ![id].docs = docs, ![id].pending = pending,
                     ![id].fetched = fetched]

Step(op, id) == ("op" :> op) @@ ("request" :> id)

\* a request arrives; get_vector_db is called first
BeginRequest ==
    \E call \in InterleavedCalls :
        LET id == Cardinality(DOMAIN requests) + 1 IN
        /\ id <= MaxRequests
        /\ requests' = DictSet(requests, id,
               [op |-> call[1], organization_id |-> "org1", user_id |-> call[2],
                agent_id |-> call[3], document_ids |-> call[4],
                pc |-> IF call[1] = "create_agent" THEN "add_metadata" ELSE "find",
                docs |-> <<>>, pending |-> <<>>, fetched |-> None, written |-> {}])
        /\ _VECTOR_DB_INSTANCES' = instances_after_get_vector_db(_VECTOR_DB_INSTANCES, "org1")
        /\ last' = Step("begin", id)
        /\ UNCHANGED <<settings, _VECTOR_DB_REGISTRY, _PROVIDER_REGISTRY, _PROVIDER_INSTANCES,
                       _SEARCH_PROVIDER_REGISTRY, _SEARCH_PROVIDER_INSTANCES, next_object, handed_out>>
        /\ UNCHANGED store_vars

\* create_agent lines 58-96: the agent_metadata document is added
AddAgentMetadata ==
    \E id \in DOMAIN requests :
        LET r == requests[id]
            vector_db == get_vector_db(_VECTOR_DB_INSTANCES, r.organization_id)
            agent_id == next_uuid + 1
            agent_doc_id == next_uuid + 2
        IN  /\ r.pc = "add_metadata"
            /\ collection' = create_agent(vector_db, collection, agent_id, agent_doc_id,
                                          r.organization_id, r.user_id, "n1", "i1", "d1",
                                          None, None, None)
            /\ next_uuid' = next_uuid + 2
            /\ origin' = DictSet(origin, agent_doc_id, <<r.organization_id, r.user_id>>)
            /\ created_agents' = DictSet(created_agents, agent_id,
                                         [organization_id |-> r.organization_id, created_by |-> r.user_id,
                                          document_id |-> agent_doc_id, deleted |-> FALSE])
            /\ requests' = [Moved(id, "associate", <<>>, r.document_ids, None) EXCEPT ![id].agent_id = agent_id]
            /\ last' = Step("add_agent_metadata", id)
            /\ UNCHANGED <<_VECTOR_DB_INSTANCES, _agent_cache>>
            /\ UNCHANGED <<settings, _VECTOR_DB_REGISTRY, _PROVIDER_REGISTRY, _PROVIDER_INSTANCES,
                           _SEARCH_PROVIDER_REGISTRY, _SEARCH_PROVIDER_INSTANCES, next_object, handed_out>>

\* delete_agent lines 396-437, update_agent lines 545-587: the agent_metadata
\* document is looked up and the caller is authorized
FindAgent ==
    \E id \in DOMAIN requests :
        LET r == requests[id]
            vector_db == get_vector_db(_VECTOR_DB_INSTANCES, r.organization_id)
            docs == agent_docs(vector_db, collection, r.organization_id, r.agent_id)
            refused == docs = <<>> \/ ~is_authorized(json_loads(docs[1].text), r.user_id)
        IN  /\ r.pc = "find"
            /\ requests' = Moved(id, IF refused THEN "done"
                                     ELSE IF r.op = "delete_agent" THEN "delete_metadata"
                                     ELSE "list_associated",
                                 docs, <<>>, None)
            /\ last' = Step("find_agent", id)
            /\ UNCHANGED <<_VECTOR_DB_INSTANCES, settings, _VECTOR_DB_REGISTRY, _PROVIDER_REGISTRY,
                           _PROVIDER_INSTANCES, _SEARCH_PROVIDER_REGISTRY, _SEARCH_PROVIDER_INSTANCES,
                           next_object, handed_out>>
            /\ UNCHANGED store_vars

\* delete_agent lines 439-452: the agent_metadata document is deleted
DeleteAgentMetadata ==
    \E id \in DOMAIN requests :
        LET r == requests[id]
            vector_db == get_vector_db(_VECTOR_DB_INSTANCES, r.organization_id)
            deleted == delete_documents(vector_db, collection, <<r.docs[1].id>>)
        IN  /\ r.pc = "delete_metadata"
            /\ collection' = deleted.collection
            /\ requests' = Moved(id, IF deleted.result THEN "list_associated" ELSE "done",
                                 <<>>, <<>>, None)
            /\ created_agents' = IF deleted.result
                                 THEN [created_agents EXCEPT ![r.agent_id].deleted = TRUE]
                                 ELSE created_agents
            /\ last' = Step("delete_agent_metadata", id)
            /\ UNCHANGED <<_VECTOR_DB_INSTANCES, _agent_cache, next_uuid, origin>>
            /\ UNCHANGED <<settings, _VECTOR_DB_REGISTRY, _PROVIDER_REGISTRY, _PROVIDER_INSTANCES,
                           _SEARCH_PROVIDER_REGISTRY, _SEARCH_PROVIDER_INSTANCES, next_object, handed_out>>

\* delete_agent lines 456-462, update_agent lines 632-637: the documents that
\* list the agent are fetched
ListAssociated ==
    \E id \in DOMAIN requests :
        LET r == requests[id]
            vector_db == get_vector_db(_VECTOR_DB_INSTANCES, r.organization_id)
        IN  /\ r.pc = "list_associated"
            /\ requests' = Moved(id, "dissociate",
                                 associated_docs(vector_db, collection, r.organization_id, r.agent_id),
                                 <<>>, None)
            /\ last' = Step("list_associated", id)
            /\ UNCHANGED <<_VECTOR_DB_INSTANCES, settings, _VECTOR_DB_REGISTRY, _PROVIDER_REGISTRY,
                           _PROVIDER_INSTANCES, _SEARCH_PROVIDER_REGISTRY, _SEARCH_PROVIDER_INSTANCES,
                           next_object, handed_out>>
            /\ UNCHANGED store_vars

\* delete_agent lines 465-497, update_agent lines 639-655: the next fetched
\* document is written back without the agent; update_document answers False
\* when the backend fails (chroma.py lines 263-272) and the loop goes on
Dissociate ==
    \E id \in DOMAIN requests, backend_fails \in BOOLEAN :
        LET r == requests[id]
            vector_db == get_vector_db(_VECTOR_DB_INSTANCES, r.organization_id)
        IN  /\ r.pc = "dissociate"
            /\ IF r.docs = <<>>
               THEN /\ ~backend_fails
                    /\ collection' = collection
                    /\ requests' = IF r.op = "delete_agent"
                                   THEN Moved(id, "done", <<>>, <<>>, None)
                                   ELSE Moved(id, "associate", <<>>, r.document_ids, None)
               ELSE /\ collection' = IF backend_fails
                                     THEN collection
                                     ELSE dissociate_document(vector_db, collection, r.agent_id, Head(r.docs))
                    /\ requests' = Moved(id, "dissociate", Tail(r.docs), <<>>, None)
            /\ _agent_cache' = IF r.docs = <<>> /\ r.op = "delete_agent"
                               THEN evict(_agent_cache, r.organization_id, r.agent_id)
                               ELSE _agent_cache
            /\ last' = Step("dissociate", id)
            /\ UNCHANGED <<_VECTOR_DB_INSTANCES, next_uuid, origin, created_agents>>
            /\ UNCHANGED <<settings, _VECTOR_DB_REGISTRY, _PROVIDER_REGISTRY, _PROVIDER_INSTANCES,
                           _SEARCH_PROVIDER_REGISTRY, _SEARCH_PROVIDER_INSTANCES, next_object, handed_out>>

\* create_agent lines 101-125, update_agent lines 658-682: the next listed
\* document is fetched and its organization verified
AssociateRead ==
    \E id \in DOMAIN requests :
        LET r == requests[id]
            vector_db == get_vector_db(_VECTOR_DB_INSTANCES, r.organization_id)
            doc == get_document(vector_db, collection, Head(r.pending))
            skipped == doc = None \/ ~has_organization(doc[1].metadata, r.organization_id)
        IN  /\ r.pc = "associate"
            /\ r.pending # <<>>
            /\ requests' = IF skipped
                           THEN Moved(id, "associate", <<>>, Tail(r.pending), None)
                           ELSE Moved(id, "associate_write", <<>>, r.pending, doc)
            /\ last' = Step("associate_read", id)
            /\ UNCHANGED <<_VECTOR_DB_INSTANCES, settings, _VECTOR_DB_REGISTRY, _PROVIDER_REGISTRY,
                           _PROVIDER_INSTANCES, _SEARCH_PROVIDER_REGISTRY, _SEARCH_PROVIDER_INSTANCES,
                           next_object, handed_out>>
            /\ UNCHANGED store_vars

\* create_agent lines 127-143, update_agent lines 684-700: the fetched
\* metadata is written back with the agent added
AssociateWrite ==
    \E id \in DOMAIN requests :
        LET r == requests[id]
            vector_db == get_vector_db(_VECTOR_DB_INSTANCES, r.organization_id)
        IN  /\ r.pc = "associate_write"
            /\ collection' = write_association(vector_db, collection, r.agent_id, r.fetched[1])
            /\ requests' = [Moved(id, "associate", <<>>, Tail(r.pending), None)
                                EXCEPT ![id].written = @ \cup {Head(r.pending)}]
            /\ last' = Step("associate_write", id)
            /\ UNCHANGED <<_VECTOR_DB_INSTANCES, _agent_cache, next_uuid, origin, created_agents>>
            /\ UNCHANGED <<settings, _VECTOR_DB_REGISTRY, _PROVIDER_REGISTRY, _PROVIDER_INSTANCES,
                           _SEARCH_PROVIDER_REGISTRY, _SEARCH_PROVIDER_INSTANCES, next_object, handed_out>>

\* create_agent lines 145-176, update_agent lines 702-707: the loop is over
\* and the request returns
FinishRequest ==
    \E id \in DOMAIN requests :
        LET r == requests[id] IN
        /\ r.pc = "associate"
        /\ r.pending = <<>>
        /\ requests' = Moved(id, "done", <<>>, <<>>, None)
        /\ _agent_cache' = IF r.op = "update_agent"
                           THEN evict(_agent_cache, r.organization_id, r.agent_id)
                           ELSE _agent_cache
        /\ last' = Step("finish", id)
        /\ UNCHANGED <<collection, _VECTOR_DB_INSTANCES, next_uuid, origin, created_agents>>
        /\ UNCHANGED <<settings, _VECTOR_DB_REGISTRY, _PROVIDER_REGISTRY, _PROVIDER_INSTANCES,
                       _SEARCH_PROVIDER_REGISTRY, _SEARCH_PROVIDER_INSTANCES, next_object, handed_out>>

NextInterleaving ==
    \/ BeginRequest
    \/ AddAgentMetadata
    \/ FindAgent
    \/ DeleteAgentMetadata
    \/ ListAssociated
    \/ Dissociate
    \/ AssociateRead
    \/ AssociateWrite
    \/ FinishRequest

SpecInterleaving == InitInterleaving /\ [][NextInterleaving]_vars

\* no request is being served
quiescent == \A id \in DOMAIN requests : requests[id].pc = "done"

\* the agents a stored record lists
listed_agents(doc) ==
    IF "associated_agents" \in DOMAIN doc.metadata THEN Range(doc.metadata["associated_agents"]) ELSE {}

\* an agent_metadata document of the agent exists in the organization
agent_exists(coll, organization_id, agent_id) ==
    \E i \in DOMAIN coll :
        /\ "document_type" \in DOMAIN coll[i].metadata
        /\ coll[i].metadata["document_type"] = "agent_metadata"
        /\ coll[i].metadata["agent_id"] = agent_id
        /\ coll[i].metadata["organization_id"] = organization_id

\* C35: whenever no request is being served, every agent id a document lists
\* in associated_agents is the id of an agent_metadata document of the
\* document's organization.
C35_AssociationsReferToAgents ==
    quiescent =>
        \A i \in DOMAIN collection :
            \A agent_id \in listed_agents(collection[i]) :
                agent_exists(collection, collection[i].metadata["organization_id"], agent_id)

\* C36: when two requests have associated two different agents with the same
\* document and no other request concerned either agent, then, once no
\* request is being served, the document lists both agents.
C36_BothAssociationsKept ==
    quiescent =>
        \A a, b \in DOMAIN requests :
            ( /\ requests[a].agent_id # requests[b].agent_id
              /\ \A c \in (DOMAIN requests) \ {a, b} :
                     requests[c].agent_id \notin {requests[a].agent_id, requests[b].agent_id} )
            => \A document_id \in requests[a].written \cap requests[b].written :
                   {requests[a].agent_id, requests[b].agent_id}
                       \subseteq listed_agents(stored(collection, document_id))

(***************************************************************************)
(* update_document with metadata chosen by the caller                      *)
(***************************************************************************)
\* services/vector_databases/qdrant.py, update_document lines 295-379:
\* set_payload writes the given keys into the stored payload; [result, collection]
qdrant_update_document(self, coll, document_id, text, metadata) ==
    LET points == collection_get(coll, <<document_id>>) IN
    IF points = <<>>
    THEN [result |-> FALSE, collection |-> coll]
    ELSE IF self.shared /\ ~( "organization_id" \in DOMAIN points[1].metadata
                               /\ points[1].metadata["organization_id"] = self.organization_id )
         THEN [result |-> FALSE, collection |-> coll]
         ELSE LET md == IF metadata = None
                        THEN EmptyDict
                        ELSE IF self.shared /\ "organization_id" \notin DOMAIN metadata[1]
                             THEN DictSet(metadata[1], "organization_id", self.organization_id)
                             ELSE metadata[1]
              IN  [result |-> TRUE,
                   collection |-> collection_update(coll, document_id, text,
                                                    Some(DictUpdate(points[1].metadata, md)))]

\* the metadata argument of an update: absent, without and with an organization_id
UpdateMetadata ==
    {None, Some(("visibility" :> SHARED))}
        \cup {Some(("visibility" :> SHARED) @@ ("organization_id" :> o)) : o \in Orgs}

UpdateCall(op, self, document_id, metadata, r) ==
    ("op" :> op) @@ ("organization_id" :> self.organization_id)
    @@ ("document_id" :> document_id) @@ ("metadata" :> metadata) @@ ("result" :> r.result)

\* update_document on the instance get_vector_db returns under the default configuration
ChromaUpdateDocument ==
    \E organization_id \in Orgs, document_id \in DocumentIds, metadata \in UpdateMetadata :
        LET vector_db == get_vector_db(_VECTOR_DB_INSTANCES, organization_id)
            r == update_document(vector_db, collection, document_id, None, metadata)
        IN  /\ _VECTOR_DB_INSTANCES' = instances_after_get_vector_db(_VECTOR_DB_INSTANCES, organization_id)
            /\ collection' = r.collection
            /\ last' = UpdateCall("chroma.update_document", vector_db, document_id, metadata, r)
            /\ UNCHANGED <<_agent_cache, next_uuid, origin, created_agents>>
            /\ UNCHANGED registry_vars

\* update_document on a Qdrant provider of the organization holding the same documents
QdrantUpdateDocument ==
    \E organization_id \in Orgs, document_id \in DocumentIds, metadata \in UpdateMetadata :
        LET vector_db == QdrantProvider(organization_id, get_company_config(organization_id),
                                        SHARED_VECTOR_DB)
            r == qdrant_update_document(vector_db, collection, document_id, None, metadata)
        IN  /\ collection' = r.collection
            /\ last' = UpdateCall("qdrant.update_document", vector_db, document_id, metadata, r)
            /\ UNCHANGED <<_VECTOR_DB_INSTANCES, _agent_cache, next_uuid, origin, created_agents>>
            /\ UNCHANGED registry_vars

NextUpdate == AddDocuments \/ ChromaUpdateDocument \/ QdrantUpdateDocument

SpecUpdate == Init /\ [][NextUpdate]_vars

\* C37: no step changes the organization_id a stored document carries.
C37_OrganizationNeverChanges ==
    [][ \A i \in DOMAIN collection :
            collection[i].id \in collection_ids(collection') =>
                stored(collection', collection[i].id).metadata["organization_id"]
                    = collection[i].metadata["organization_id"] ]_vars

(***************************************************************************)
(* Agents created and updated with custom metadata                         *)
(***************************************************************************)
\* custom metadata of a request: absent, or naming identity fields next to a free key
CustomMetadata(free_key, value) ==
    {None,
     Some(("agent_id" :> MISSING_ID) @@ ("created_by" :> "mallory") @@ ("organization_id" :> "org2")
          @@ ("created_at" :> "t9") @@ (free_key :> value))}

\* create_agent with custom metadata
CreateAgentCustom ==
    \E p \in Principals, metadata \in CustomMetadata("team", "a") :
        LET vector_db == get_vector_db(_VECTOR_DB_INSTANCES, p[1])
            agent_id == next_uuid + 1
            agent_doc_id == next_uuid + 2
        IN  /\ Cardinality(DOMAIN created_agents) < MaxAgents
            /\ _VECTOR_DB_INSTANCES' = instances_after_get_vector_db(_VECTOR_DB_INSTANCES, p[1])
            /\ next_uuid' = next_uuid + 2
            /\ collection' = create_agent(vector_db, collection, agent_id, agent_doc_id, p[1], p[2],
                                          "n1", "i1", "d1", None, None, metadata)
            /\ origin' = DictSet(origin, agent_doc_id, p)
            /\ created_agents' = DictSet(created_agents, agent_id,
                                         [organization_id |-> p[1], created_by |-> p[2],
                                          document_id |-> agent_doc_id, deleted |-> FALSE])
            /\ last' = Call("create_agent", p) @@ ("agent_id" :> agent_id)
                       @@ ("metadata" :> metadata)
            /\ UNCHANGED _agent_cache
            /\ UNCHANGED registry_vars

\* update_agent with custom metadata, with or without a new name
UpdateAgentCustom ==
    \E p \in Principals, agent_id \in AgentIds, name \in {None, Some("n2")},
       metadata \in CustomMetadata("department", "it") :
        LET vector_db == get_vector_db(_VECTOR_DB_INSTANCES, p[1])
            r == update_agent(vector_db, collection, _agent_cache, agent_id, p[1], p[2],
                              name, None, None, None, None, metadata)
        IN  /\ _VECTOR_DB_INSTANCES' = instances_after_get_vector_db(_VECTOR_DB_INSTANCES, p[1])
            /\ collection' = r.collection
            /\ _agent_cache' = r.cache
            /\ last' = Call("update_agent", p) @@ ("agent_id" :> agent_id)
                       @@ ("metadata" :> metadata)
                       @@ ("result" :> r.result)
            /\ UNCHANGED <<next_uuid, origin, created_agents>>
            /\ UNCHANGED registry_vars

NextIdentity == CreateAgentCustom \/ UpdateAgentCustom

SpecIdentity == InitAgents /\ [][NextIdentity]_vars

\* the agent metadata the store holds for a created agent
stored_agent_metadata(agent_id) ==
    json_loads(stored(collection, created_agents[agent_id].document_id).text)

\* C38: the stored agent_id, created_by, organization_id and created_at of every
\* agent are the ones of its creation, whatever custom metadata the requests carried.
C38_IdentityFieldsKept ==
    \A agent_id \in DOMAIN created_agents :
        LET agent_metadata == stored_agent_metadata(agent_id) IN
        /\ agent_metadata["agent_id"] = agent_id
        /\ agent_metadata["created_by"] = created_agents[agent_id].created_by
        /\ agent_metadata["organization_id"] = created_agents[agent_id].organization_id
        /\ agent_metadata["created_at"] = "t0"

\* an agent created with custom metadata has been updated with custom metadata
C38_Witness ==
    /\ last["op"] = "update_agent"
    /\ last["metadata"] # None
    /\ last["result"] # None
    /\ "team" \in DOMAIN last["result"][1].metadata
    /\ "department" \in DOMAIN stored_agent_metadata(last["agent_id"])
    /\ "updated_at" \in DOMAIN stored_agent_metadata(last["agent_id"])

(***************************************************************************)
(* create_agent followed by get_agent                                      *)
(***************************************************************************)
\* document_ids of a creation: absent, empty, own documents, a repeated id,
\* a missing id, a document of another organization
CreationDocumentIds ==
    {None, Some(<<>>), Some(<<1, 3>>), Some(<<3, 3>>), Some(<<3, MISSING_ID>>), Some(<<3, 4>>),
     Some(<<MISSING_ID>>)}

\* create_agent with a list of documents; the response carries document_count
CreateAgentWithDocuments ==
    \E p \in Principals, document_ids \in CreationDocumentIds :
        LET vector_db == get_vector_db(_VECTOR_DB_INSTANCES, p[1])
            agent_id == next_uuid + 1
            agent_doc_id == next_uuid + 2
        IN  /\ Cardinality(DOMAIN created_agents) < MaxAgents
            /\ _VECTOR_DB_INSTANCES' = instances_after_get_vector_db(_VECTOR_DB_INSTANCES, p[1])
            /\ next_uuid' = next_uuid + 2
            /\ collection' = create_agent(vector_db, collection, agent_id, agent_doc_id, p[1], p[2],
                                          "n1", "i1", "d1", document_ids, None, None)
            /\ origin' = DictSet(origin, agent_doc_id, p)
            /\ created_agents' = DictSet(created_agents, agent_id,
                                         [organization_id |-> p[1], created_by |-> p[2],
                                          document_id |-> agent_doc_id, deleted |-> FALSE])
            /\ last' = Call("create_agent", p) @@ ("agent_id" :> agent_id)
                       @@ ("document_ids" :> document_ids)
                       @@ ("document_count" :> create_agent_document_count(document_ids))
            /\ UNCHANGED _agent_cache
            /\ UNCHANGED registry_vars

NextCreation == CreateAgentWithDocuments \/ GetAgent

SpecCreation == InitAgents /\ [][NextCreation]_vars

\* what get_agent answers the creator right after the creation
get_agent_afterwards ==
    get_agent(get_vector_db(_VECTOR_DB_INSTANCES, last["organization_id"]), collection,
              last["agent_id"], last["organization_id"], last["user_id"])

\* C39: right after create_agent, get_agent reports the document_count the
\* creation returned.
C39_CountsAgree ==
    last["op"] = "create_agent" =>
        /\ get_agent_afterwards # None
        /\ get_agent_afterwards[1].document_count = last["document_count"]

(***************************************************************************)
(* utils/filtering.py: document_access_check                               *)
(***************************************************************************)
\* document_access_check, lines 88-131
document_access_check(document_metadata, user_id, organization_id) ==
    LET doc_org_id == DictGet(document_metadata, "organization_id", None)
        doc_user_id == DictGet(document_metadata, "user_id", None)
        doc_visibility == DictGet(document_metadata, "visibility", PRIVATE)
    IN  IF doc_org_id # organization_id
        THEN DictGet(document_metadata, "visibility", None) = PUBLIC
        ELSE IF doc_user_id = user_id
        THEN TRUE
        ELSE IF doc_visibility = PRIVATE
        THEN FALSE
        ELSE IF doc_visibility = SHARED
        THEN TRUE
        ELSE IF doc_visibility = PUBLIC
        THEN TRUE
        ELSE FALSE

\* metadata of a document: each of organization_id, user_id and visibility is
\* absent or has one of the listed values ("internal" is no visibility tier)
CheckedMetadata ==
    LET field(key, values) == {EmptyDict} \cup {(key :> v) : v \in values} IN
    { o @@ u @@ v : o \in field("organization_id", Orgs),
                    u \in field("user_id", Users),
                    v \in field("visibility", {PRIVATE, SHARED, PUBLIC, "internal"}) }

DocumentAccessCheck ==
    \E p \in Principals, document_metadata \in CheckedMetadata :
        /\ last' = Call("document_access_check", p) @@ ("metadata" :> document_metadata)
                   @@ ("result" :> document_access_check(document_metadata, p[2], p[1]))
        /\ UNCHANGED <<collection, _VECTOR_DB_INSTANCES, _agent_cache, next_uuid, origin, created_agents>>
        /\ UNCHANGED registry_vars

SpecAccess == Init /\ [][DocumentAccessCheck]_vars

\* the default filter of the checked request accepts the checked metadata
default_filter_accepts ==
    Matches(get_access_filters(last["organization_id"], last["user_id"], None, EmptyDict),
            last["metadata"])

\* C40: document_access_check answers true exactly when the default filter of
\* get_access_filters for the same organization and user accepts the metadata.
C40_CheckAgreesWithDefaultFilter ==
    last["op"] = "document_access_check" => (last["result"] <=> default_filter_accepts)

====
